---- MODULE Spec2Model ----
(***************************************************************************)
(* A model of the AI request orchestration layer of the FindLead           *)
(* intelligence platform:                                                  *)
(*   - utils/rate_limiter.py    GroqRateLimiter (shared by all threads)    *)
(*   - services/llm_router.py   LLMRouter (construction and complete)      *)
(*   - utils/api_optimizer.py   APIOptimizer (file-backed response cache)  *)
(* Each component has its own specification over the shared variables;     *)
(* the variables of the other components keep their initial values.        *)
(* Time is a wall clock counted in whole seconds.                          *)
(***************************************************************************)
EXTENDS Integers, Sequences, FiniteSets, TLC

VARIABLES
    now,            \* the wall clock, datetime.now() / time.time(), in seconds
    ticks,          \* how many times the clock has advanced (bounds the model)
    \* ---- GroqRateLimiter (rate_limiter.py:15-20)
    call_times,     \* self.call_times: list of timestamps, in append order
    daily_calls,    \* self.daily_calls
    last_reset,     \* self.last_reset (a datetime)
    lock,           \* self.lock: the thread holding it, or NoThread
    \* ---- one wait_if_needed call per thread at a time
    pc,             \* where each thread is in wait_if_needed
    wake_at,        \* the time a sleeping thread's time.sleep returns
    ncalls,         \* how many wait_if_needed calls have been started
    entry,          \* what each thread's current call found on entry
    admissions,     \* every timestamp record_call has ever appended
    \* ---- LLMRouter construction (llm_router.py:145-170, app.py:24-45)
    providers_arg,  \* the `providers` argument of LLMRouter(...)
    groq_api_key,   \* os.getenv("GROQ_API_KEY")
    router,         \* "unbuilt", "ready" (an object exists) or "failed"
    provider_list,  \* the local provider_list of __init__
    providers,      \* self.providers
    router_init_error, \* the message of the RuntimeError __init__ raised
    request_error,  \* the error a request got from _ensure_router_ready
    \* ---- one LLMRouter.complete call (llm_router.py:172-213)
    rpc,            \* where the call is
    idx,            \* the position of the loop in self.providers
    start,          \* the local start of the current iteration
    last_error,     \* the local last_error
    ret,            \* the value complete returned
    raised_msg,     \* the message of the RuntimeError complete raised
    served,         \* what the "served request" line printed
    dispatched,     \* every provider.complete call made, with its time
    attempts,       \* every provider.complete call that ended, with its outcome
    backoffs,       \* every time.sleep(retry_delay) made
    \* ---- APIOptimizer (api_optimizer.py:17-76)
    files,          \* the files of self.cache_dir, by cache key
    cpc,            \* where each caller is in its cache operation
    cop,            \* the operation each caller runs, with its arguments
    cached_data,    \* each caller's local cached_data
    checked_at,     \* the datetime.now() of each caller's expiry check
    nops,           \* how many cache operations have been started
    prev_done,      \* the cache operation completed before the last one
    last_done,      \* the cache operation completed last
    \* ---- _extract_json (llm_router.py:24-52)
    message,        \* the argument: the text of the model's message
    extracted,      \* what the call returned, once it has
    \* ---- an analysis service's request (analysis_service.py:38-105)
    disable_cache,  \* os.getenv("DISABLE_CACHE")
    apc,            \* where each request is
    req,            \* the locals of each request, down to the provider call
    outcome,        \* what each request gave its caller
    remote_calls,   \* every requests.post issued, in order
    cache_calls     \* every call of the cache made by a request, in order

clockVars == <<now, ticks>>

limiterVars == <<call_times, daily_calls, last_reset, lock, pc, wake_at,
                 ncalls, entry, admissions>>

routerVars == <<providers_arg, groq_api_key, router, provider_list, providers,
                router_init_error, request_error>>

completeVars == <<rpc, idx, start, last_error, ret, raised_msg, served,
                  dispatched, attempts, backoffs>>

cacheVars == <<files, cpc, cop, cached_data, checked_at, nops, prev_done,
               last_done>>

normalizerVars == <<message, extracted>>

serviceVars == <<disable_cache, apc, req, outcome, remote_calls, cache_calls>>

vars == <<clockVars, limiterVars, routerVars, completeVars, cacheVars,
          normalizerVars, serviceVars>>

(***************************************************************************)
(* Bounds of the model and constants of the program.                       *)
(***************************************************************************)
NumThreads == 2         \* concurrent callers of wait_if_needed
MaxCalls == 3           \* wait_if_needed calls started in one behaviour
MaxTicks == 2           \* clock advances in one behaviour
CallsPerMinute == 1     \* GroqRateLimiter(calls_per_minute=...)
CallsPerDay == 2        \* GroqRateLimiter(calls_per_day=...)
Minute == 60            \* timedelta(minutes=1), in seconds
DaySeconds == 86400     \* one calendar day, in seconds
SleepBuffer == 1        \* time.sleep(wait_time + 1)

Threads == 1..NumThreads
NoThread == 0

\* datetime.date(): the calendar day a time point falls in.
Date(t) == t \div DaySeconds

\* [call_time for call_time in s if call_time > minute_ago]
RECURSIVE SelectTimes(_, _)
SelectTimes(s, minute_ago) ==
    IF s = <<>> THEN <<>>
    ELSE IF Head(s) > minute_ago
         THEN <<Head(s)>> \o SelectTimes(Tail(s), minute_ago)
         ELSE SelectTimes(Tail(s), minute_ago)

\* min(self.call_times) of a non-empty list.
MinOf(s) == CHOOSE x \in {s[i] : i \in DOMAIN s} :
                \A y \in {s[i] : i \in DOMAIN s} : x <= y

(***************************************************************************)
(* GroqRateLimiter.can_make_call, the body run under self.lock. It returns *)
(* the (can_call, message) pair of the code as a record, together with the *)
(* fields of self as the body leaves them.                                 *)
(***************************************************************************)
ResetDue(t) == Date(t) > Date(last_reset)

DailyAfterReset(t) == IF ResetDue(t) THEN 0 ELSE daily_calls

LastResetAfter(t) == IF ResetDue(t) THEN t ELSE last_reset

PrunedCallTimes(t) == SelectTimes(call_times, t - Minute)

can_make_call(t) ==
    IF DailyAfterReset(t) >= CallsPerDay
    THEN [can_call |-> FALSE, kind |-> "daily", wait_time |-> 0,
          call_times |-> call_times,
          daily_calls |-> DailyAfterReset(t), last_reset |-> LastResetAfter(t)]
    ELSE IF Len(PrunedCallTimes(t)) >= CallsPerMinute
    THEN [can_call |-> FALSE, kind |-> "wait",
          wait_time |-> MinOf(PrunedCallTimes(t)) + Minute - t,
          call_times |-> PrunedCallTimes(t),
          daily_calls |-> DailyAfterReset(t), last_reset |-> LastResetAfter(t)]
    ELSE [can_call |-> TRUE, kind |-> "ok", wait_time |-> 0,
          call_times |-> PrunedCallTimes(t),
          daily_calls |-> DailyAfterReset(t), last_reset |-> LastResetAfter(t)]

\* `"Wait" in message`: only the per-minute message holds the word.
MessageHasWait(r) == r.kind = "wait"

\* float(message.split()[-2]) of "Rate limit reached. Wait {w:.1f} seconds":
\* a whole number of seconds is printed as w.0 and read back as w.
ParsedWait(r) == r.wait_time

\* How many admissions were recorded on the calendar day of t.
AdmittedOn(day) == Cardinality({i \in DOMAIN admissions : Date(admissions[i]) = day})

(***************************************************************************)
(* wait_if_needed, one thread's call, step by step.                        *)
(***************************************************************************)
\* A thread calls wait_if_needed (rate_limiter.py:55).
Call(t) ==
    /\ pc[t] \in {"idle", "done", "raised"}
    /\ ncalls < MaxCalls
    /\ pc' = [pc EXCEPT ![t] = "can_lock"]
    /\ ncalls' = ncalls + 1
    /\ entry' = [entry EXCEPT ![t] =
                    [day |-> Date(now),
                     full |-> AdmittedOn(Date(now)) >= CallsPerDay]]
    /\ UNCHANGED <<now, ticks, call_times, daily_calls, last_reset, lock,
                   wake_at, admissions>>
    /\ UNCHANGED <<routerVars, completeVars, cacheVars, normalizerVars,
                   serviceVars>>

\* `with self.lock:` of can_make_call (rate_limiter.py:24).
CanAcquire(t) ==
    /\ pc[t] = "can_lock"
    /\ lock = NoThread
    /\ lock' = t
    /\ pc' = [pc EXCEPT ![t] = "can_body"]
    /\ UNCHANGED <<now, ticks, call_times, daily_calls, last_reset, wake_at,
                   ncalls, entry, admissions>>
    /\ UNCHANGED <<routerVars, completeVars, cacheVars, normalizerVars,
                   serviceVars>>

\* The body of can_make_call, the release of the lock, and the branch
\* wait_if_needed takes on the result (rate_limiter.py:25-46, 57-65).
CanMakeCall(t) ==
    /\ pc[t] = "can_body"
    /\ lock = t
    /\ LET r == can_make_call(now) IN
        /\ call_times' = r.call_times
        /\ daily_calls' = r.daily_calls
        /\ last_reset' = r.last_reset
        /\ IF r.can_call
           THEN /\ pc' = [pc EXCEPT ![t] = "rec_lock"]
                /\ UNCHANGED wake_at
           ELSE IF MessageHasWait(r)
           THEN /\ pc' = [pc EXCEPT ![t] = "sleep"]
                /\ wake_at' = [wake_at EXCEPT ![t] = now + ParsedWait(r) + SleepBuffer]
           ELSE /\ pc' = [pc EXCEPT ![t] = "raised"]
                /\ UNCHANGED wake_at
    /\ lock' = NoThread
    /\ UNCHANGED <<now, ticks, ncalls, entry, admissions>>
    /\ UNCHANGED <<routerVars, completeVars, cacheVars, normalizerVars,
                   serviceVars>>

\* A waiter that takes its slot right after the sleep.
WakeAdmitted(t) ==
    /\ pc[t] = "sleep"
    /\ now >= wake_at[t]
    /\ pc' = [pc EXCEPT ![t] = "rec_lock"]
    /\ UNCHANGED <<now, ticks, call_times, daily_calls, last_reset, lock,
                   wake_at, ncalls, entry, admissions>>
    /\ UNCHANGED <<routerVars, completeVars, cacheVars, normalizerVars,
                   serviceVars>>

\* time.sleep returns and wait_if_needed calls itself (rate_limiter.py:62-63).
Wake(t) ==
    /\ pc[t] = "sleep"
    /\ now >= wake_at[t]
    /\ pc' = [pc EXCEPT ![t] = "can_lock"]
    /\ UNCHANGED <<now, ticks, call_times, daily_calls, last_reset, lock,
                   wake_at, ncalls, entry, admissions>>
    /\ UNCHANGED <<routerVars, completeVars, cacheVars, normalizerVars,
                   serviceVars>>

\* `with self.lock:` of record_call (rate_limiter.py:50).
RecAcquire(t) ==
    /\ pc[t] = "rec_lock"
    /\ lock = NoThread
    /\ lock' = t
    /\ pc' = [pc EXCEPT ![t] = "rec_body"]
    /\ UNCHANGED <<now, ticks, call_times, daily_calls, last_reset, wake_at,
                   ncalls, entry, admissions>>
    /\ UNCHANGED <<routerVars, completeVars, cacheVars, normalizerVars,
                   serviceVars>>

\* The body of record_call, the release, and `return True`
\* (rate_limiter.py:51-53, 68).
RecordCall(t) ==
    /\ pc[t] = "rec_body"
    /\ lock = t
    /\ call_times' = Append(call_times, now)
    /\ daily_calls' = daily_calls + 1
    /\ admissions' = Append(admissions, now)
    /\ lock' = NoThread
    /\ pc' = [pc EXCEPT ![t] = "done"]
    /\ UNCHANGED <<now, ticks, last_reset, wake_at, ncalls, entry>>
    /\ UNCHANGED <<routerVars, completeVars, cacheVars, normalizerVars,
                   serviceVars>>

\* The clock advances: by a second, by a minute, or to the next midnight.
LimiterSteps == {1, Minute}

TickLimiter ==
    /\ ticks < MaxTicks
    /\ \/ \E d \in LimiterSteps : now' = now + d
       \/ now' = (Date(now) + 1) * DaySeconds
    /\ ticks' = ticks + 1
    /\ UNCHANGED <<limiterVars, routerVars, completeVars, cacheVars,
                   normalizerVars, serviceVars>>

\* GroqRateLimiter.__init__ (rate_limiter.py:15-20), and no thread inside
\* wait_if_needed yet.
LimiterConstructed ==
    /\ call_times = <<>>
    /\ daily_calls = 0
    /\ last_reset = now
    /\ lock = NoThread
    /\ pc = [t \in Threads |-> "idle"]
    /\ wake_at = [t \in Threads |-> 0]
    /\ ncalls = 0
    /\ entry = [t \in Threads |-> [day |-> 0, full |-> FALSE]]
    /\ admissions = <<>>

(***************************************************************************)
(* LLMRouter: construction.                                                *)
(***************************************************************************)
MaxProviders == 3       \* the longest provider list given to LLMRouter(...)
RetryDelay == 2         \* retry_delay: float = 2.0

None == <<>>
Priorities == {0, 10}   \* GroqProvider's priority and BaseProvider's default
ProviderNames == <<"groq", "alpha", "beta", "gamma", "delta">>

\* The i-th provider object handed to the constructor: objects are told
\* apart by id, their place in the list given.
Provider(i, prio) == [id |-> i, name |-> ProviderNames[i], priority |-> prio]

ProviderLists ==
    UNION {{[i \in 1..n |-> Provider(i, f[i])] : f \in [1..n -> Priorities]}
              : n \in 0..MaxProviders}

\* The list without its last element.
Front(s) == SubSeq(s, 1, Len(s) - 1)

\* sorted(provider_list, key=priority) is a stable sort: an element goes
\* behind every element whose key is not greater than its own.
InsertUnstable(sorted, x) ==
    Cardinality({i \in DOMAIN sorted : sorted[i].priority < x.priority})

InsertPosition(sorted, x) ==
    Cardinality({i \in DOMAIN sorted : sorted[i].priority <= x.priority})

InsertByPriority(sorted, x) ==
    SubSeq(sorted, 1, InsertPosition(sorted, x)) \o <<x>>
        \o SubSeq(sorted, InsertPosition(sorted, x) + 1, Len(sorted))

RECURSIVE SortedByPriority(_)
SortedByPriority(s) ==
    IF s = <<>> THEN <<>>
    ELSE InsertByPriority(SortedByPriority(Front(s)), s[Len(s)])

\* LLMRouter._discover_providers (llm_router.py:161-170).
GroqProvider == [id |-> 1, name |-> "groq", priority |-> 0]

DiscoverProviders(key) == IF key # "" THEN <<GroqProvider>> ELSE <<>>

\* `if providers is not None` (llm_router.py:146-149).
ProviderListOf(arg, key) ==
    IF arg.given THEN arg.list ELSE DiscoverProviders(key)

\* An error message is the tuple of its parts: f"{name}: {exc}" is
\* <<name, exc>>, and None is the empty tuple.
NoProviderMessage ==
    <<"No LLM provider configured. Set GROQ_API_KEY in your environment variables.">>

\* `if not provider_list: raise RuntimeError(...)` (llm_router.py:151-154).
NeverRefuses(list) == FALSE

ConstructionRefuses(list) == list = <<>>

\* LLMRouter.__init__, and the `try: _llm_router = LLMRouter()` around it.
Construct ==
    /\ router = "unbuilt"
    /\ provider_list' = ProviderListOf(providers_arg, groq_api_key)
    /\ IF ConstructionRefuses(provider_list')
       THEN /\ router' = "failed"
            /\ router_init_error' = NoProviderMessage
            /\ UNCHANGED providers
       ELSE /\ router' = "ready"
            /\ providers' = SortedByPriority(provider_list')
            /\ UNCHANGED router_init_error
    /\ UNCHANGED <<clockVars, limiterVars, providers_arg, groq_api_key,
                   request_error, completeVars, cacheVars, normalizerVars,
                   serviceVars>>

\* _service_guard / _ensure_router_ready of a request (app.py:43-45, 76-80).
RequestRejected ==
    /\ router = "failed"
    /\ request_error = None
    /\ request_error' = router_init_error
    /\ UNCHANGED <<clockVars, limiterVars, providers_arg, groq_api_key, router,
                   provider_list, providers, router_init_error, completeVars,
                   cacheVars, normalizerVars, serviceVars>>

(***************************************************************************)
(* LLMRouter.complete: one call, step by step. A provider's complete is    *)
(* any of: a result, ProviderRateLimitError, ProviderError, or another     *)
(* exception (a timeout of requests.post, the rate limiter's Exception).   *)
(***************************************************************************)
\* What a provider can return: a parsed mapping, or the normalizer's fallback.
Results == {[summary |-> "hot lead"],
            [response |-> "no json here", error |-> "Could not parse as JSON"]}

RateLimitTexts == {"Groq rate limit reached", "Groq temporary server error"}
ProviderErrorTexts == {"Groq request failed (401)"}
TimeoutText == "Read timed out"
QuotaText == "Rate limit exceeded: Daily limit reached"
OtherErrorTexts == {TimeoutText, QuotaText}

\* How long a provider's call can take, in seconds.
CallDurations == {0, 1}

AllFailedMessage == <<"All LLM providers failed">>

\* last_error = f"{provider.config.name}: {exc}" (llm_router.py:203, 207, 210).
KeepFirstError(prev, name, text) == IF prev = None THEN <<name, text>> ELSE prev

RecordError(prev, name, text) == <<name, text>>

\* The loop moves to the next provider after a failure (llm_router.py:186).
SameProviderAgain(i) == i

NextProvider(i) == i + 1

\* latency = time.time() - start (llm_router.py:197).
Latency(start_t, end_t) == end_t - start_t

\* `return result` (llm_router.py:201): the provider's result itself.
ResultRecord(result, name, latency) ==
    [data |-> result, provider |-> name, latency |-> latency]

ReturnValue(result, name, latency) == result

\* RuntimeError(last_error or "All LLM providers failed") (llm_router.py:213).
ExhaustedMessage(err) == IF err # None THEN err ELSE AllFailedMessage

routerFrame == <<ticks, limiterVars, routerVars, cacheVars, normalizerVars,
                serviceVars>>

\* complete is called on the router object (llm_router.py:172-184).
CompleteCall ==
    /\ router = "ready"
    /\ rpc = "idle"
    /\ rpc' = "loop"
    /\ idx' = 1
    /\ last_error' = None
    /\ UNCHANGED <<now, routerFrame, start, ret, raised_msg, served,
                   dispatched, attempts, backoffs>>

\* An iteration begins: start = time.time(); provider.complete(...)
\* (llm_router.py:186-196).
Dispatch ==
    /\ rpc = "loop"
    /\ idx <= Len(providers)
    /\ start' = now
    /\ dispatched' = Append(dispatched, [provider |-> providers[idx].id, at |-> now])
    /\ rpc' = "in_provider"
    /\ UNCHANGED <<now, routerFrame, idx, last_error, ret, raised_msg, served,
                   attempts, backoffs>>

Attempt(kind, text, result) ==
    [provider |-> providers[idx].id, kind |-> kind, text |-> text,
     result |-> result, start |-> start, end |-> now']

\* The provider returns a result, the result is kept, and the loop goes on.
ProviderSucceedsAndGoesOn ==
    /\ rpc = "in_provider"
    /\ \E d \in CallDurations : now' = now + d
    /\ \E r \in Results :
        /\ attempts' = Append(attempts, Attempt("ok", "", r))
        /\ served' = [provider |-> providers[idx].name,
                      latency |-> Latency(start, now')]
        /\ ret' = ReturnValue(r, providers[idx].name, Latency(start, now'))
    /\ idx' = NextProvider(idx)
    /\ rpc' = "loop"
    /\ UNCHANGED <<routerFrame, start, last_error, raised_msg, dispatched,
                   backoffs>>

\* The provider returns a result (llm_router.py:197-201).
ProviderSucceeds ==
    /\ rpc = "in_provider"
    /\ \E d \in CallDurations : now' = now + d
    /\ \E r \in Results :
        /\ attempts' = Append(attempts, Attempt("ok", "", r))
        /\ served' = [provider |-> providers[idx].name,
                      latency |-> Latency(start, now')]
        /\ ret' = ReturnValue(r, providers[idx].name, Latency(start, now'))
    /\ rpc' = "returned"
    /\ UNCHANGED <<routerFrame, idx, start, last_error, raised_msg, dispatched,
                   backoffs>>

\* A loop that sleeps after every failure.
BackoffAfterAny(kind) == TRUE

\* Of the three handlers only that of ProviderRateLimitError holds
\* time.sleep(retry_delay) (llm_router.py:202-211).
BackoffAfter(kind) == kind = "rate_limit"

\* Where the loop is once the handler has recorded the error.
AfterError(kind) ==
    IF BackoffAfter(kind)
    THEN rpc' = "backoff" /\ UNCHANGED idx
    ELSE rpc' = "loop" /\ idx' = NextProvider(idx)

\* The provider raises ProviderRateLimitError (llm_router.py:202-205): the
\* error is recorded and time.sleep(retry_delay) begins.
ProviderRateLimited ==
    /\ rpc = "in_provider"
    /\ \E d \in CallDurations : now' = now + d
    /\ \E text \in RateLimitTexts :
        /\ attempts' = Append(attempts, Attempt("rate_limit", text, None))
        /\ last_error' = RecordError(last_error, providers[idx].name, text)
    /\ AfterError("rate_limit")
    /\ UNCHANGED <<routerFrame, start, ret, raised_msg, served, dispatched,
                   backoffs>>

\* time.sleep(retry_delay) returns and the loop goes on (llm_router.py:205).
BackoffDone ==
    /\ rpc = "backoff"
    /\ now' = now + RetryDelay
    /\ backoffs' = Append(backoffs, [after |-> providers[idx].id, until |-> now'])
    /\ idx' = NextProvider(idx)
    /\ rpc' = "loop"
    /\ UNCHANGED <<routerFrame, start, last_error, ret, raised_msg, served,
                   dispatched, attempts>>

\* The provider raises ProviderError (llm_router.py:206-208).
ProviderFails ==
    /\ rpc = "in_provider"
    /\ \E d \in CallDurations : now' = now + d
    /\ \E text \in ProviderErrorTexts :
        /\ attempts' = Append(attempts, Attempt("provider_error", text, None))
        /\ last_error' = RecordError(last_error, providers[idx].name, text)
    /\ AfterError("provider_error")
    /\ UNCHANGED <<routerFrame, start, ret, raised_msg, served, dispatched,
                   backoffs>>

\* The provider raises any other Exception (llm_router.py:209-211).
ProviderUnexpected ==
    /\ rpc = "in_provider"
    /\ \E d \in CallDurations : now' = now + d
    /\ \E text \in OtherErrorTexts :
        /\ attempts' = Append(attempts, Attempt("exception", text, None))
        /\ last_error' = RecordError(last_error, providers[idx].name, text)
    /\ AfterError("exception")
    /\ UNCHANGED <<routerFrame, start, ret, raised_msg, served, dispatched,
                   backoffs>>

\* The loop is over without a return (llm_router.py:213).
Exhausted ==
    /\ rpc = "loop"
    /\ idx > Len(providers)
    /\ raised_msg' = ExhaustedMessage(last_error)
    /\ rpc' = "raised"
    /\ UNCHANGED <<now, routerFrame, idx, start, last_error, ret, served,
                   dispatched, attempts, backoffs>>

\* No complete call has been made.
CompleteIdle ==
    /\ rpc = "idle"
    /\ idx = 0
    /\ start = 0
    /\ last_error = None
    /\ ret = None
    /\ raised_msg = None
    /\ served = None
    /\ dispatched = <<>>
    /\ attempts = <<>>
    /\ backoffs = <<>>

\* No LLMRouter(...) has run.
RouterUnbuilt ==
    /\ router = "unbuilt"
    /\ provider_list = <<>>
    /\ providers = <<>>
    /\ router_init_error = None
    /\ request_error = None

(***************************************************************************)
(* APIOptimizer: the file-backed cache. Python values and the JSON text    *)
(* written to a file are two representations; json.dump and json.load      *)
(* convert between them.                                                   *)
(***************************************************************************)
NumCallers == 2         \* callers that can be inside the cache
MaxOps == 3             \* cache operations started in one behaviour
CacheDuration == 7200   \* timedelta(hours=2), in seconds

Callers == 1..NumCallers

PyNone == [none |-> "None"]
PyBool(b) == [bool |-> b]
PyInt(n) == [int |-> n]
PyStr(x) == [str |-> x]
PyList(l) == [list |-> l]
PyDict(f) == [dict |-> f]

\* The payloads the services cache: mappings built from parsed JSON.
Payloads ==
    {PyDict([sentiment |-> PyStr("positive"), priority_score |-> PyInt(50),
             is_deliverable |-> PyBool(TRUE), issues |-> PyList(<<>>)]),
     PyDict([raw_analysis |->
                PyDict([response |-> PyStr("no json here"),
                        error |-> PyStr("Could not parse as JSON")])])}

AnalysisTypes == {"sentiment_ai", "email_validation_ai"}
Contents == {"call me", "unsubscribe"}

\* len(email_content)
LenOf(content) == IF content = "call me" THEN 7 ELSE 11

\* hashlib.md5(email_content.encode()).hexdigest()
Md5(content) ==
    IF content = "call me" THEN "5829a954bd245531339dc10a081abff5" ELSE "a013658e30387f7a60cdaf0acf26850d"

\* A key that leaves the analysis type out.
CacheKeyOfContentOnly(content, analysis_type) == <<"any", "_", Md5(content)>>

\* _get_cache_key: f"{analysis_type}_{content_hash}" (api_optimizer.py:24-27).
CacheKey(content, analysis_type) == <<analysis_type, "_", Md5(content)>>

\* _get_cache_path (api_optimizer.py:29-31).
CachePath(cache_key) == <<"data/cache", cache_key, ".json">>

CachePaths == {CachePath(CacheKey(k, t)) : k \in Contents, t \in AnalysisTypes}

\* The one entry that concurrent callers and identical requests share.
RacedContent == "call me"
RacedType == "sentiment_ai"
RacedPath == CachePath(CacheKey(RacedContent, RacedType))

\* datetime.isoformat(): the date and the time of day, and fromisoformat.
IsoFormat(t) == <<t \div DaySeconds, "T", t % DaySeconds>>

FromIsoFormat(x) == x[1] * DaySeconds + x[3]

\* json.dump: the JSON text of a Python value.
RECURSIVE JsonDump(_)
JsonDump(v) ==
    IF "dict" \in DOMAIN v
    THEN [object |-> [k \in DOMAIN v.dict |-> JsonDump(v.dict[k])]]
    ELSE IF "list" \in DOMAIN v
    THEN [array |-> [i \in DOMAIN v.list |-> JsonDump(v.list[i])]]
    ELSE IF "str" \in DOMAIN v THEN [string |-> v.str]
    ELSE IF "int" \in DOMAIN v THEN [number |-> v.int]
    ELSE IF "bool" \in DOMAIN v
    THEN [literal |-> IF v.bool THEN "true" ELSE "false"]
    ELSE [literal |-> "null"]

\* json.load: the Python value of a JSON text.
RECURSIVE JsonLoad(_)
JsonLoad(j) ==
    IF "object" \in DOMAIN j
    THEN PyDict([k \in DOMAIN j.object |-> JsonLoad(j.object[k])])
    ELSE IF "array" \in DOMAIN j
    THEN PyList([i \in DOMAIN j.array |-> JsonLoad(j.array[i])])
    ELSE IF "string" \in DOMAIN j THEN PyStr(j.string)
    ELSE IF "number" \in DOMAIN j THEN PyInt(j.number)
    ELSE IF j.literal = "null" THEN PyNone
    ELSE PyBool(j.literal = "true")

\* The states of a file: not there, just opened for writing, written, or
\* holding one writer's text followed by the end of a longer text that
\* another writer had put there.
Absent == [kind |-> "absent"]
Empty == [kind |-> "empty"]
Text(j) == [kind |-> "text", json |-> j]
Mixed(j, n) == [kind |-> "mixed", head |-> j, length |-> n]

\* The dict cache_result writes (api_optimizer.py:64-68).
Envelope(content, result, t) ==
    PyDict([timestamp |-> PyStr(IsoFormat(t)),
            result |-> result,
            email_length |-> PyInt(LenOf(content))])

\* The number of characters json.dump writes for the dict of cache_result
\* around a result: 159 for the first of the payloads, 156 for the second.
DumpLength(result) ==
    IF "raw_analysis" \in DOMAIN result.dict THEN 156 ELSE 159

\* The number of characters in a file.
FileLength(file) ==
    IF file.kind = "mixed" THEN file.length
    ELSE IF file.kind = "text"
    THEN DumpLength(JsonLoad(file.json).dict["result"])
    ELSE 0

\* A file that was opened with mode 'w' after one writer has written d
\* through it (api_optimizer.py:70-71): the text is written in one piece
\* from the start of the file, over what another writer has put there
\* since the file was emptied, and does not cut the file off behind it.
Written(file, d) ==
    IF FileLength(file) > DumpLength(d.dict["result"])
    THEN Mixed(JsonDump(d), FileLength(file))
    ELSE Text(JsonDump(d))

\* `datetime.now() - cached_time > self.cache_duration` (api_optimizer.py:47).
ExpiredAtLimit(age) == age >= CacheDuration

Expired(age) == age > CacheDuration

\* What `datetime.fromisoformat(cached_data['timestamp'])` raises, or None
\* (api_optimizer.py:46): cached_data is not a dict or a list of that index,
\* has no such key, or the value is not a string, or not a date.
TimestampError(d) ==
    IF "dict" \notin DOMAIN d THEN <<"TypeError">>
    ELSE IF "timestamp" \notin DOMAIN d.dict THEN <<"KeyError">>
    ELSE IF "str" \notin DOMAIN d.dict["timestamp"] THEN <<"TypeError">>
    ELSE IF Len(d.dict["timestamp"].str) # 3 THEN <<"ValueError">>
    ELSE None

\* get_cached_result run without interruption on a file at time t: what it
\* returns and what it leaves of the file (api_optimizer.py:39-56).
LookupOn(file, t) ==
    IF file.kind # "text"
    THEN [result |-> PyNone, file |-> file]
    ELSE LET d == JsonLoad(file.json) IN
         IF TimestampError(d) # None
         THEN [result |-> PyNone, file |-> file]
         ELSE IF Expired(t - FromIsoFormat(d.dict["timestamp"].str))
         THEN [result |-> PyNone, file |-> Absent]
         ELSE IF "result" \notin DOMAIN d.dict
         THEN [result |-> PyNone, file |-> file]
         ELSE [result |-> d.dict["result"], file |-> file]

PathOf(c) == CachePath(CacheKey(cop[c].content, cop[c].type))

NoOp == [op |-> "none"]

\* What an operation that is over leaves: its locals are gone.
Finished(c, result, at, exc, handled) ==
    /\ cached_data' = [cached_data EXCEPT ![c] = PyNone]
    /\ checked_at' = [checked_at EXCEPT ![c] = 0]
    /\ prev_done' = IF last_done.op = "store" THEN last_done ELSE NoOp
    /\ last_done' = [op |-> cop[c].op, type |-> cop[c].type,
                     content |-> cop[c].content, payload |-> cop[c].payload,
                     at |-> at, result |-> result, raised |-> exc,
                     caught |-> handled, by |-> c,
                     found |-> [t \in AnalysisTypes |->
                                  files[CachePath(CacheKey(cop[c].content, t))]]]

\* An operation returns to its caller.
Ends(c, result, at, exc, handled) ==
    /\ cpc' = [cpc EXCEPT ![c] = "idle"]
    /\ Finished(c, result, at, exc, handled)

\* os.remove takes the name off the file and get_cached_result returns
\* None (api_optimizer.py:48-49). A writer that has the file open goes on
\* writing into the file without a name.
Unlinks(c) ==
    /\ cpc' = [x \in Callers |->
                 IF x = c THEN "idle"
                 ELSE IF cpc[x] = "w_write" /\ PathOf(x) = PathOf(c)
                 THEN "w_orphan"
                 ELSE cpc[x]]
    /\ Finished(c, PyNone, checked_at[c], None, None)

\* The operation returns `result` to its caller.
Returns(c, result, at) == Ends(c, result, at, None, None)

\* An exception leaves the operation and reaches its caller.
Propagates(c, exc) == Ends(c, PyNone, now, exc, None)

\* `except Exception as e: ...; return None` around the whole body of
\* get_cached_result (api_optimizer.py:35, 54-56).
Caught(c, exc) == Ends(c, PyNone, now, None, exc)

cacheFrame == <<limiterVars, routerVars, completeVars, normalizerVars,
               serviceVars>>

\* get_cached_result is called (api_optimizer.py:33-37).
GetCallFor(c, contents, types) ==
    /\ cpc[c] = "idle"
    /\ nops < MaxOps
    /\ \E k \in contents : \E t \in types :
          cop' = [cop EXCEPT ![c] = [op |-> "get", type |-> t, content |-> k,
                                     payload |-> PyNone]]
    /\ cpc' = [cpc EXCEPT ![c] = "g_exists"]
    /\ nops' = nops + 1
    /\ UNCHANGED <<clockVars, cacheFrame, files, cached_data, checked_at,
                   prev_done, last_done>>

GetCall(c) == GetCallFor(c, Contents, AnalysisTypes)

\* `if not os.path.exists(cache_path): return None` (api_optimizer.py:39-40).
GetExists(c) ==
    /\ cpc[c] = "g_exists"
    /\ IF files[PathOf(c)] = Absent
       THEN Returns(c, PyNone, now)
       ELSE /\ cpc' = [cpc EXCEPT ![c] = "g_read"]
            /\ UNCHANGED <<cached_data, checked_at, prev_done, last_done>>
    /\ UNCHANGED <<clockVars, cacheFrame, files, cop, nops>>

\* open and json.load (api_optimizer.py:42-43); a missing file or a text
\* that is not JSON raises, and the except returns None (54-56).
GetRead(c) ==
    /\ cpc[c] = "g_read"
    /\ IF files[PathOf(c)].kind # "text"
       THEN Caught(c, IF files[PathOf(c)] = Absent
                      THEN <<"FileNotFoundError">>
                      ELSE <<"JSONDecodeError">>)
       ELSE /\ cached_data' = [cached_data EXCEPT
                                  ![c] = JsonLoad(files[PathOf(c)].json)]
            /\ cpc' = [cpc EXCEPT ![c] = "g_check"]
            /\ UNCHANGED <<checked_at, prev_done, last_done>>
    /\ UNCHANGED <<clockVars, cacheFrame, files, cop, nops>>

\* The expiry check and the return of the result (api_optimizer.py:46-52).
GetCheck(c) ==
    /\ cpc[c] = "g_check"
    /\ IF TimestampError(cached_data[c]) # None
       THEN Caught(c, TimestampError(cached_data[c]))
       ELSE IF Expired(now - FromIsoFormat(cached_data[c].dict["timestamp"].str))
       THEN /\ cpc' = [cpc EXCEPT ![c] = "g_remove"]
            /\ checked_at' = [checked_at EXCEPT ![c] = now]
            /\ UNCHANGED <<cached_data, prev_done, last_done>>
       ELSE IF "result" \notin DOMAIN cached_data[c].dict
       THEN Caught(c, <<"KeyError">>)
       ELSE Returns(c, cached_data[c].dict["result"], now)
    /\ UNCHANGED <<clockVars, cacheFrame, files, cop, nops>>

\* os.remove(cache_path); return None (api_optimizer.py:48-49).
GetRemove(c) ==
    /\ cpc[c] = "g_remove"
    /\ files' = [files EXCEPT ![PathOf(c)] = Absent]
    /\ IF files[PathOf(c)] = Absent
       THEN Caught(c, <<"FileNotFoundError">>)
       ELSE Unlinks(c)
    /\ UNCHANGED <<clockVars, cacheFrame, cop, nops>>

\* cache_result is called (api_optimizer.py:58-62).
StoreCallFor(c, contents, types) ==
    /\ cpc[c] = "idle"
    /\ nops < MaxOps
    /\ \E k \in contents : \E t \in types : \E v \in Payloads :
          cop' = [cop EXCEPT ![c] = [op |-> "store", type |-> t, content |-> k,
                                     payload |-> v]]
    /\ cpc' = [cpc EXCEPT ![c] = "w_open"]
    /\ nops' = nops + 1
    /\ UNCHANGED <<clockVars, cacheFrame, files, cached_data, checked_at,
                   prev_done, last_done>>

StoreCall(c) == StoreCallFor(c, Contents, AnalysisTypes)

\* cached_data is built and the file opened for writing, which empties it
\* (api_optimizer.py:64-70).
StoreOpen(c) ==
    /\ cpc[c] = "w_open"
    /\ cached_data' = [cached_data EXCEPT
                          ![c] = Envelope(cop[c].content, cop[c].payload, now)]
    /\ checked_at' = [checked_at EXCEPT ![c] = now]
    /\ files' = [files EXCEPT ![PathOf(c)] = Empty]
    /\ cpc' = [cpc EXCEPT ![c] = "w_write"]
    /\ UNCHANGED <<clockVars, cacheFrame, cop, nops, prev_done, last_done>>

\* json.dump and the close of the file (api_optimizer.py:70-73).
StoreWrite(c) ==
    /\ cpc[c] \in {"w_write", "w_orphan"}
    /\ files' = IF cpc[c] = "w_orphan"
                THEN files
                ELSE [files EXCEPT
                         ![PathOf(c)] = Written(files[PathOf(c)], cached_data[c])]
    /\ Returns(c, PyNone, checked_at[c])
    /\ UNCHANGED <<clockVars, cacheFrame, cop, nops>>

\* The clock advances by a second or by the cache duration.
CacheSteps == {1, CacheDuration}

TickCache ==
    /\ ticks < MaxTicks
    /\ \E d \in CacheSteps : now' = now + d
    /\ ticks' = ticks + 1
    /\ UNCHANGED <<cacheFrame, cacheVars>>

\* APIOptimizer.__init__ on an empty cache directory (api_optimizer.py:17-22).
CacheConstructed ==
    /\ files = [f \in CachePaths |-> Absent]
    /\ cpc = [c \in Callers |-> "idle"]
    /\ cop = [c \in Callers |-> NoOp]
    /\ cached_data = [c \in Callers |-> PyNone]
    /\ checked_at = [c \in Callers |-> 0]
    /\ nops = 0
    /\ prev_done = NoOp
    /\ last_done = NoOp

(***************************************************************************)
(* _extract_json (llm_router.py:24-52). A text is a sequence of tokens:    *)
(* the braces, brackets, comma and colon of JSON, `q` for a double quote,  *)
(* the literals 1, true and null, a blank for any whitespace, the fence    *)
(* of three backticks, the word json and a word of prose.                  *)
(***************************************************************************)
Blank == " "
Quote == "q"
Fence == "FENCE"
Word == "a"

\* The text from position i to position j.
Slice(s, i, j) == IF j < i THEN <<>> ELSE SubSeq(s, i, j)

\* The first position from i on that holds no whitespace (\s*).
RECURSIVE SkipBlanks(_, _)
SkipBlanks(s, i) ==
    IF i <= Len(s) /\ s[i] = Blank THEN SkipBlanks(s, i + 1) ELSE i

\* The last position up to j that holds no whitespace.
RECURSIVE SkipBlanksBack(_, _)
SkipBlanksBack(s, j) ==
    IF j >= 1 /\ s[j] = Blank THEN SkipBlanksBack(s, j - 1) ELSE j

\* str.strip()
Strip(s) == Slice(s, SkipBlanks(s, 1), SkipBlanksBack(s, Len(s)))

\* The first position from i on that holds token x, or Len(s) + 1.
RECURSIVE FindToken(_, _, _)
FindToken(s, x, i) ==
    IF i > Len(s) \/ s[i] = x THEN i ELSE FindToken(s, x, i + 1)

(***************************************************************************)
(* json.loads: a recursive-descent reading of the text. A reading is       *)
(* [ok, val, next]: whether a value starts at the position, the Python     *)
(* value, and the position after it. A str is the tokens between its       *)
(* quotes; a dict maps such strs to values, a later pair replacing an      *)
(* earlier one of the same key.                                            *)
(***************************************************************************)
NoReading == [ok |-> FALSE]
Reading(v, n) == [ok |-> TRUE, val |-> v, next |-> n]

\* The dict of a list of (key, value) pairs.
DictOf(pairs) ==
    PyDict([k \in {pairs[i].key : i \in DOMAIN pairs} |->
               LET last == CHOOSE i \in DOMAIN pairs :
                              /\ pairs[i].key = k
                              /\ \A j \in DOMAIN pairs :
                                    pairs[j].key = k => j <= i
               IN pairs[last].val])

\* A string starts with a quote and ends at the next one.
ReadString(s, i) ==
    IF i <= Len(s) /\ s[i] = Quote /\ FindToken(s, Quote, i + 1) <= Len(s)
    THEN Reading(PyStr(Slice(s, i + 1, FindToken(s, Quote, i + 1) - 1)),
                 FindToken(s, Quote, i + 1) + 1)
    ELSE NoReading

RECURSIVE ReadValue(_, _), ReadMembers(_, _, _), ReadElements(_, _, _)
\* A value, after any whitespace.
ReadValue(s, i) ==
    LET p == SkipBlanks(s, i) IN
    IF p > Len(s) THEN NoReading
    ELSE IF s[p] = "1" THEN Reading(PyInt(1), p + 1)
    ELSE IF s[p] = "true" THEN Reading(PyBool(TRUE), p + 1)
    ELSE IF s[p] = "null" THEN Reading(PyNone, p + 1)
    ELSE IF s[p] = Quote THEN ReadString(s, p)
    ELSE IF s[p] = "{"
    THEN IF SkipBlanks(s, p + 1) <= Len(s) /\ s[SkipBlanks(s, p + 1)] = "}"
         THEN Reading(DictOf(<<>>), SkipBlanks(s, p + 1) + 1)
         ELSE ReadMembers(s, p + 1, <<>>)
    ELSE IF s[p] = "["
    THEN IF SkipBlanks(s, p + 1) <= Len(s) /\ s[SkipBlanks(s, p + 1)] = "]"
         THEN Reading(PyList(<<>>), SkipBlanks(s, p + 1) + 1)
         ELSE ReadElements(s, p + 1, <<>>)
    ELSE NoReading

\* The pairs of an object from position i on, up to its closing brace.
ReadMembers(s, i, pairs) ==
    LET k == ReadString(s, SkipBlanks(s, i)) IN
    IF ~k.ok THEN NoReading
    ELSE LET c == SkipBlanks(s, k.next) IN
         IF c > Len(s) \/ s[c] # ":" THEN NoReading
         ELSE LET v == ReadValue(s, c + 1) IN
              IF ~v.ok THEN NoReading
              ELSE LET e == SkipBlanks(s, v.next)
                       all == Append(pairs, [key |-> k.val.str, val |-> v.val])
                   IN IF e > Len(s) THEN NoReading
                      ELSE IF s[e] = "}" THEN Reading(DictOf(all), e + 1)
                      ELSE IF s[e] = "," THEN ReadMembers(s, e + 1, all)
                      ELSE NoReading

\* The elements of an array from position i on, up to its closing bracket.
ReadElements(s, i, elems) ==
    LET v == ReadValue(s, i) IN
    IF ~v.ok THEN NoReading
    ELSE LET e == SkipBlanks(s, v.next)
             all == Append(elems, v.val)
         IN IF e > Len(s) THEN NoReading
            ELSE IF s[e] = "]" THEN Reading(PyList(all), e + 1)
            ELSE IF s[e] = "," THEN ReadElements(s, e + 1, all)
            ELSE NoReading

\* json.loads(s): one value and nothing but whitespace after it; a reading
\* that is not ok stands for json.JSONDecodeError.
JsonLoads(s) ==
    LET r == ReadValue(s, 1) IN
    IF r.ok /\ SkipBlanks(s, r.next) > Len(s) THEN r ELSE NoReading

(***************************************************************************)
(* re.findall of the three patterns (llm_router.py:37-44): the captures    *)
(* of the matches found from left to right, each search starting where     *)
(* the last match ended.                                                   *)
(***************************************************************************)
\* The end of the shortest (\{.*?\})\s* and fence for a brace at position
\* b: the position of the closing brace and that of the fence, or no match.
RECURSIVE FencedEnd(_, _, _)
FencedEnd(s, b, e) ==
    IF e > Len(s) THEN [found |-> FALSE]
    ELSE IF /\ s[e] = "}"
            /\ SkipBlanks(s, e + 1) <= Len(s)
            /\ s[SkipBlanks(s, e + 1)] = Fence
    THEN [found |-> TRUE, close |-> e, last |-> SkipBlanks(s, e + 1)]
    ELSE FencedEnd(s, b, e + 1)

\* Where the brace of a fenced match that starts at position i stands:
\* after the fence, the label if the pattern has one, and any whitespace.
FencedBrace(s, i, labelled) ==
    LET after == IF labelled THEN i + 2 ELSE i + 1 IN
    IF /\ i <= Len(s) /\ s[i] = Fence
       /\ (labelled => (i + 1 <= Len(s) /\ s[i + 1] = "json"))
       /\ SkipBlanks(s, after) <= Len(s)
       /\ s[SkipBlanks(s, after)] = "{"
    THEN SkipBlanks(s, after)
    ELSE 0

\* The first pattern when labelled (fence, json, \s*, (\{.*?\}), \s*, fence),
\* the second when not (the same without json).
RECURSIVE FindFenced(_, _, _)
FindFenced(s, i, labelled) ==
    IF i > Len(s) THEN <<>>
    ELSE LET b == FencedBrace(s, i, labelled) IN
         IF b = 0 THEN FindFenced(s, i + 1, labelled)
         ELSE LET m == FencedEnd(s, b, b + 1) IN
              IF ~m.found THEN FindFenced(s, i + 1, labelled)
              ELSE <<Slice(s, b, m.close)>>
                       \o FindFenced(s, m.last + 1, labelled)

\* The end of [^{}]*: the next brace from position i on, or Len(s) + 1.
RECURSIVE NextBrace(_, _)
NextBrace(s, i) ==
    IF i > Len(s) \/ s[i] \in {"{", "}"} THEN i ELSE NextBrace(s, i + 1)

\* The end of r"(\{[^{}]*(?:\{[^{}]*\}[^{}]*)*\})" from inside the outer
\* brace: the position of the closing brace, or 0.
RECURSIVE BracedEnd(_, _)
BracedEnd(s, i) ==
    LET n == NextBrace(s, i) IN
    IF n > Len(s) THEN 0
    ELSE IF s[n] = "}" THEN n
    ELSE LET inner == NextBrace(s, n + 1) IN
         IF inner > Len(s) \/ s[inner] # "}" THEN 0
         ELSE BracedEnd(s, inner + 1)

RECURSIVE FindBraced(_, _)
FindBraced(s, i) ==
    IF i > Len(s) THEN <<>>
    ELSE IF s[i] = "{" /\ BracedEnd(s, i + 1) # 0
    THEN <<Slice(s, i, BracedEnd(s, i + 1))>>
             \o FindBraced(s, BracedEnd(s, i + 1) + 1)
    ELSE FindBraced(s, i + 1)

\* The matches of the three patterns, in the order the loops try them.
Candidates(s) ==
    FindFenced(s, 1, TRUE) \o FindFenced(s, 1, FALSE) \o FindBraced(s, 1)

\* The first candidate json.loads accepts, if any (llm_router.py:43-49).
RECURSIVE FirstLoadable(_)
FirstLoadable(matches) ==
    IF matches = <<>> THEN NoReading
    ELSE IF JsonLoads(Strip(Head(matches))).ok
    THEN JsonLoads(Strip(Head(matches)))
    ELSE FirstLoadable(Tail(matches))

ErrorKey == <<"error">>
ResponseKey == <<"response">>
EmptyResponse == PyDict([k \in {ErrorKey} |->
                            PyStr(<<"Empty response from model">>)])

\* A fallback that carries the text alone.
FallbackWithoutError(text) == PyDict([k \in {ResponseKey} |-> PyStr(text)])

\* {"response": content, "error": "Could not parse as JSON"}
Fallback(text) ==
    PyDict([k \in {ResponseKey, ErrorKey} |->
               IF k = ResponseKey THEN PyStr(text)
               ELSE PyStr(<<"Could not parse as JSON">>)])

\* `return json.loads(content)` unless it raises (llm_router.py:31-34).
DirectParse(r) == r.ok

\* _extract_json(content)
ExtractJson(text) ==
    IF text = <<>> THEN EmptyResponse
    ELSE LET stripped == Strip(text) IN
         IF DirectParse(JsonLoads(stripped)) THEN JsonLoads(stripped).val
         ELSE IF FirstLoadable(Candidates(stripped)).ok
         THEN FirstLoadable(Candidates(stripped)).val
         ELSE Fallback(stripped)

\* The texts a model's message is drawn from: a JSON value of each kind, or
\* text that is no JSON, bare or in a fence with or without the json label,
\* with or without prose and brace-delimited text before and after it.
JsonTexts ==
    {<<"{", Quote, Word, Quote, ":", "1", "}">>,
     <<"{", "}">>,
     <<"{", Quote, Word, Quote, ":", "{", Quote, Word, Quote, ":", "1", "}",
       ",", Quote, "b", Quote, ":", "[", "true", ",", "null", "]", "}">>,
     <<"{", Quote, Word, Quote, ":", Quote, "}", Fence, Quote, "}">>,
     <<"{", Quote, Word, Quote, ":", "{", Quote, Word, Quote, ":",
       "{", Quote, Word, Quote, ":", "1", "}", "}", "}">>,
     <<"[", "1", "]">>,
     <<Quote, Word, Quote>>,
     <<"1">>,
     <<"true">>,
     <<"null">>}

NonJsonTexts ==
    {<<Word>>, <<"{", Word, "}">>, <<"{", Quote, Word, Quote, ":">>}

Surroundings ==
    {<<>>, <<Blank>>, <<Word, Blank>>, <<"{", Word, "}", Blank>>}

Wrapped(body) ==
    {body,
     <<Fence, "json", Blank>> \o body \o <<Blank, Fence>>,
     <<Fence, Blank>> \o body \o <<Fence>>}

Reverse(s) == [i \in DOMAIN s |-> s[Len(s) + 1 - i]]

ModelTexts ==
    {<<>>} \cup
    {before \o w \o Reverse(after) :
        before \in Surroundings, after \in Surroundings,
        w \in UNION {Wrapped(b) : b \in JsonTexts \cup NonJsonTexts}}

NotCalled == [called |-> FALSE]

NormalizerIdle ==
    /\ message = <<>>
    /\ extracted = NotCalled

\* _extract_json is called on a text and returns.
Extract ==
    /\ extracted = NotCalled
    /\ extracted' = [called |-> TRUE, value |-> ExtractJson(message)]
    /\ UNCHANGED <<message, clockVars, limiterVars, routerVars, completeVars,
                   cacheVars, serviceVars>>

(***************************************************************************)
(* An analysis service's request, from the cache lookup through            *)
(* LLMRouter.complete and GroqProvider.complete to the cache store         *)
(* (analysis_service.py:38-105, llm_router.py:89-139, 172-213). Each       *)
(* request runs on its own thread and is the caller of the rate limiter    *)
(* under the thread's number. The requests are identical: they have the    *)
(* same cache key. The cache calls run without interruption here.          *)
(***************************************************************************)
Requests == {t \in Threads : t <= 2}

EnvUnset == [set |-> FALSE]
EnvValue(x) == [set |-> TRUE, value |-> x]
DisableCacheValues == {EnvUnset, EnvValue("1")}

\* `if not os.getenv("DISABLE_CACHE")` (analysis_service.py:55).
CacheInUse(env) == ~env.set \/ env.value = ""

\* `if cached:` (analysis_service.py:57): None and the empty dict are false.
Truthy(v) ==
    /\ v # PyNone
    /\ ("dict" \in DOMAIN v => DOMAIN v.dict # {})

\* The router of a request: the Groq provider alone, or with a second
\* provider of the default priority behind it.
ServiceProviderLists == {<<GroqProvider>>, <<GroqProvider, Provider(2, 10)>>}

\* The status codes of the remote responses.
StatusCodes == {200, 399, 400, 429, 499, 500, 503}

\* A classification that knows no 429.
ClassifyWithout429(status) ==
    IF status >= 500
    THEN [kind |-> "rate_limit", text |-> "Groq temporary server error"]
    ELSE IF status >= 400
    THEN [kind |-> "provider_error", text |-> "Groq request failed"]
    ELSE [kind |-> "ok", text |-> ""]

\* What GroqProvider.complete makes of response.status_code
\* (llm_router.py:126-133); the text of ProviderError also holds the code
\* and the start of the body, left out here.
Classify(status) ==
    IF status = 429
    THEN [kind |-> "rate_limit", text |-> "Groq rate limit reached"]
    ELSE IF status >= 500
    THEN [kind |-> "rate_limit", text |-> "Groq temporary server error"]
    ELSE IF status >= 400
    THEN [kind |-> "provider_error", text |-> "Groq request failed"]
    ELSE [kind |-> "ok", text |-> ""]

\* data["choices"][0]["message"]["content"] of a response: an object, prose,
\* and JSON that is no object.
Messages ==
    {<<"{", Quote, "sentiment_label", Quote, ":", Quote, "positive", Quote, "}">>,
     <<Word>>,
     <<"1">>}

\* dict.get(key, default)
Get(d, key, default) == IF key \in DOMAIN d.dict THEN d.dict[key] ELSE default

\* formatted_data (analysis_service.py:89-100): fields read off the
\* response with defaults, and the response itself; two of the fields stand
\* for all.
FormattedData(ai) ==
    PyDict([k \in {<<"sentiment">>, <<"raw_analysis">>} |->
               IF k = <<"sentiment">>
               THEN Get(ai, <<"sentiment_label">>, PyStr(<<"neutral">>))
               ELSE ai])

\* The provider field of a result that was not served from the cache, were
\* it the name of the provider.
ServedByName(name) == name

\* provider="ai" (analysis_service.py:105, 216, 329).
ServedLabel(name) == "ai"

\* AnalysisResult(data, provider, latency_seconds), and beside it where the
\* data came from: "cache", or the name of the provider that served it.
Result(data, provider, latency, source) ==
    [kind |-> "returned", data |-> data, provider |-> provider,
     latency_seconds |-> latency, source |-> source]

Raised(exc) == [kind |-> "raised", error |-> exc]

NoOutcome == [kind |-> "none"]

NoLocals == [idx |-> 0, last_error |-> None, start |-> 0, wake |-> 0,
             ai_response |-> PyNone, served_by |-> ""]

\* The request is over and its locals are gone.
Over(r, pos, result) ==
    /\ apc' = [apc EXCEPT ![r] = pos]
    /\ outcome' = [outcome EXCEPT ![r] = result]
    /\ req' = [req EXCEPT ![r] = NoLocals]

serviceFrame == <<routerVars, completeVars, cpc, cop, cached_data, checked_at,
                  nops, prev_done, last_done, normalizerVars, disable_cache>>

\* start = time.time() and the call of router.complete, up to its loop
\* (analysis_service.py:78-79, llm_router.py:172-184).
RouterComplete(r) ==
    /\ req' = [req EXCEPT ![r] = [NoLocals EXCEPT !.idx = 1, !.start = now]]
    /\ apc' = [apc EXCEPT ![r] = "loop"]

\* analyze is called and the flag is read; with the cache out of use the
\* router is called at once (analysis_service.py:38-55, 78-79).
Analyze(r) ==
    /\ apc[r] = "idle"
    /\ IF CacheInUse(disable_cache)
       THEN /\ apc' = [apc EXCEPT ![r] = "lookup"]
            /\ UNCHANGED req
       ELSE RouterComplete(r)
    /\ UNCHANGED <<clockVars, limiterVars, serviceFrame, files, outcome,
                   remote_calls, cache_calls>>

\* get_cached_result, and the return of a hit or the call of the router
\* (analysis_service.py:56-58, 78-79).
Lookup(r) ==
    /\ apc[r] = "lookup"
    /\ LET l == LookupOn(files[RacedPath], now) IN
        /\ files' = [files EXCEPT ![RacedPath] = l.file]
        /\ IF Truthy(l.result)
           THEN Over(r, "returned", Result(l.result, "cache", 0, "cache"))
           ELSE /\ RouterComplete(r)
                /\ UNCHANGED outcome
    /\ cache_calls' = Append(cache_calls, [by |-> r, op |-> "get"])
    /\ UNCHANGED <<clockVars, limiterVars, serviceFrame, remote_calls>>

\* The loop of complete takes the next provider and calls it, or is over
\* and raises (llm_router.py:186-196, 213); the RuntimeError goes through
\* analyze to its caller.
LoopNext(r) ==
    /\ apc[r] = "loop"
    /\ IF req[r].idx > Len(providers)
       THEN Over(r, "raised", Raised(ExhaustedMessage(req[r].last_error)))
       ELSE /\ apc' = [apc EXCEPT ![r] =
                          IF providers[req[r].idx].name = "groq"
                          THEN "admission" ELSE "other"]
            /\ UNCHANGED <<req, outcome>>
    /\ UNCHANGED <<clockVars, limiterVars, serviceFrame, files, remote_calls,
                   cache_calls>>

\* The provider's call failed with an error the loop goes on from at once
\* (llm_router.py:206-211).
GoesOn(r, text) ==
    /\ req' = [req EXCEPT
                 ![r].last_error = RecordError(req[r].last_error,
                                               providers[req[r].idx].name, text),
                 ![r].idx = NextProvider(req[r].idx)]
    /\ apc' = [apc EXCEPT ![r] = "loop"]

\* The provider's call raised ProviderRateLimitError: the error is recorded
\* and time.sleep(retry_delay) begins (llm_router.py:202-205).
BacksOff(r, text) ==
    /\ req' = [req EXCEPT
                 ![r].last_error = RecordError(req[r].last_error,
                                               providers[req[r].idx].name, text),
                 ![r].wake = now + RetryDelay]
    /\ apc' = [apc EXCEPT ![r] = "backoff"]

\* The provider's call returned, and so does complete (llm_router.py:197-201).
Served(r, result) ==
    /\ req' = [req EXCEPT
                 ![r].ai_response = ReturnValue(result,
                                                providers[req[r].idx].name, 0),
                 ![r].served_by = providers[req[r].idx].name]
    /\ apc' = [apc EXCEPT ![r] = "format"]

\* A request that posts without having been admitted.
AdmittedOrNot(r) == pc[r] \in {"idle", "done"}

\* groq_rate_limiter.wait_if_needed() has returned (llm_router.py:99).
Admitted(r) == pc[r] = "done"

\* requests.post and what complete makes of the response
\* (llm_router.py:119-139).
GroqPostOf(r, codes) ==
    /\ apc[r] = "admission"
    /\ Admitted(r)
    /\ \E status \in codes :
        /\ remote_calls' = Append(remote_calls,
                                  [by |-> r, status |-> status,
                                   kind |-> Classify(status).kind])
        /\ IF Classify(status).kind = "rate_limit"
           THEN BacksOff(r, Classify(status).text)
           ELSE IF Classify(status).kind = "provider_error"
           THEN GoesOn(r, Classify(status).text)
           ELSE \E m \in Messages : Served(r, ExtractJson(m))
    /\ UNCHANGED <<clockVars, limiterVars, serviceFrame, files, outcome,
                   cache_calls>>

GroqPost(r) == GroqPostOf(r, StatusCodes)

\* requests.post raises after the timeout: no response, and an exception
\* that is neither of the provider's two (llm_router.py:119-124, 209-211).
GroqTimesOut(r) ==
    /\ apc[r] = "admission"
    /\ Admitted(r)
    /\ remote_calls' = Append(remote_calls,
                              [by |-> r, status |-> 0, kind |-> "exception"])
    /\ GoesOn(r, TimeoutText)
    /\ UNCHANGED <<clockVars, limiterVars, serviceFrame, files, outcome,
                   cache_calls>>

\* An admission failure raised as ProviderRateLimitError.
AdmissionFailureAsRateLimit == "rate_limit"

\* `raise Exception(...)` (rate_limiter.py:65): what wait_if_needed raises
\* is of neither of the provider's two classes.
AdmissionFailure == "exception"

\* wait_if_needed raised: the daily limit is reached (rate_limiter.py:65,
\* llm_router.py:99, 209-211).
GroqNotAdmitted(r) ==
    /\ apc[r] = "admission"
    /\ pc[r] = "raised"
    /\ IF BackoffAfter(AdmissionFailure)
       THEN BacksOff(r, QuotaText)
       ELSE GoesOn(r, QuotaText)
    /\ UNCHANGED <<clockVars, limiterVars, serviceFrame, files, outcome,
                   remote_calls, cache_calls>>

\* A provider that is not Groq's returns or raises.
OtherProvider(r) ==
    /\ apc[r] = "other"
    /\ \/ Served(r, ExtractJson(<<"{", "}">>))
       \/ BacksOff(r, "rate limit reached")
       \/ GoesOn(r, "request failed")
    /\ UNCHANGED <<clockVars, limiterVars, serviceFrame, files, outcome,
                   remote_calls, cache_calls>>

\* time.sleep(retry_delay) returns and the loop goes on (llm_router.py:205).
BackoffOver(r) ==
    /\ apc[r] = "backoff"
    /\ now >= req[r].wake
    /\ req' = [req EXCEPT ![r].idx = NextProvider(req[r].idx)]
    /\ apc' = [apc EXCEPT ![r] = "loop"]
    /\ UNCHANGED <<clockVars, limiterVars, serviceFrame, files, outcome,
                   remote_calls, cache_calls>>

\* latency, formatted_data, cache_result and the return of the result
\* (analysis_service.py:87-105); .get on a response that is no mapping
\* raises AttributeError.
FormatAndStore(r) ==
    /\ apc[r] = "format"
    /\ IF ~("dict" \in DOMAIN req[r].ai_response)
       THEN /\ Over(r, "raised", Raised(<<"AttributeError">>))
            /\ UNCHANGED <<files, cache_calls>>
       ELSE LET data == FormattedData(req[r].ai_response) IN
            /\ files' = [files EXCEPT ![RacedPath] =
                            Text(JsonDump(Envelope(RacedContent, data, now)))]
            /\ cache_calls' = Append(cache_calls, [by |-> r, op |-> "store"])
            /\ Over(r, "returned",
                    Result(data, ServedLabel(req[r].served_by),
                           Latency(req[r].start, now), req[r].served_by))
    /\ UNCHANGED <<clockVars, limiterVars, serviceFrame, remote_calls>>

\* The clock advances by a minute, which is enough for a wait of the
\* limiter and for the router's retry delay to be over.
TickService ==
    /\ ticks < MaxTicks
    /\ now' = now + Minute
    /\ ticks' = ticks + 1
    /\ UNCHANGED <<limiterVars, routerVars, completeVars, cacheVars,
                   normalizerVars, serviceVars>>

\* No request has been made.
ServiceIdle ==
    /\ disable_cache = EnvUnset
    /\ apc = [r \in Requests |-> "idle"]
    /\ req = [r \in Requests |-> NoLocals]
    /\ outcome = [r \in Requests |-> NoOutcome]
    /\ remote_calls = <<>>
    /\ cache_calls = <<>>

(***************************************************************************)
(* The specifications.                                                     *)
(***************************************************************************)
\* The limiter is constructed just before a midnight or in the middle of a
\* day, and threads call wait_if_needed.
StartTimes == {DaySeconds - 1, DaySeconds + 3600}

InitLimiter ==
    /\ now \in StartTimes
    /\ ticks = 0
    /\ LimiterConstructed
    /\ providers_arg = [given |-> FALSE, list |-> <<>>]
    /\ groq_api_key = ""
    /\ RouterUnbuilt
    /\ CompleteIdle
    /\ CacheConstructed
    /\ NormalizerIdle
    /\ ServiceIdle

NextLimiter ==
    \/ \E t \in Threads : Call(t)
    \/ \E t \in Threads : CanAcquire(t)
    \/ \E t \in Threads : CanMakeCall(t)
    \/ \E t \in Threads : Wake(t)
    \/ \E t \in Threads : RecAcquire(t)
    \/ \E t \in Threads : RecordCall(t)
    \/ TickLimiter

SpecLimiter == InitLimiter /\ [][NextLimiter]_vars

\* A router is constructed from a list of providers, or from the
\* environment, and complete is called on it once.
InitRouter ==
    /\ now = DaySeconds + 3600
    /\ ticks = 0
    /\ LimiterConstructed
    /\ providers_arg \in {[given |-> FALSE, list |-> <<>>]}
                            \cup {[given |-> TRUE, list |-> l] : l \in ProviderLists}
    /\ groq_api_key \in {"", "gsk_key"}
    /\ RouterUnbuilt
    /\ CompleteIdle
    /\ CacheConstructed
    /\ NormalizerIdle
    /\ ServiceIdle

NextRouter ==
    \/ Construct
    \/ RequestRejected
    \/ CompleteCall
    \/ Dispatch
    \/ ProviderSucceeds
    \/ ProviderRateLimited
    \/ BackoffDone
    \/ ProviderFails
    \/ ProviderUnexpected
    \/ Exhausted

SpecRouter == InitRouter /\ [][NextRouter]_vars

\* One caller stores and looks up, one operation after the other.
InitCache ==
    /\ now = DaySeconds + 3600
    /\ ticks = 0
    /\ LimiterConstructed
    /\ providers_arg = [given |-> FALSE, list |-> <<>>]
    /\ groq_api_key = ""
    /\ RouterUnbuilt
    /\ CompleteIdle
    /\ CacheConstructed
    /\ NormalizerIdle
    /\ ServiceIdle

NextCacheSeq ==
    \/ GetCall(1)
    \/ GetExists(1)
    \/ GetRead(1)
    \/ GetCheck(1)
    \/ GetRemove(1)
    \/ StoreCall(1)
    \/ StoreOpen(1)
    \/ StoreWrite(1)
    \/ TickCache

\* _extract_json is called once, on any of the texts.
InitNormalizer ==
    /\ now = DaySeconds + 3600
    /\ ticks = 0
    /\ LimiterConstructed
    /\ providers_arg = [given |-> FALSE, list |-> <<>>]
    /\ groq_api_key = ""
    /\ RouterUnbuilt
    /\ CompleteIdle
    /\ CacheConstructed
    /\ message \in ModelTexts
    /\ extracted = NotCalled
    /\ ServiceIdle

NextNormalizer == Extract

SpecNormalizer == InitNormalizer /\ [][NextNormalizer]_vars

\* Two requests of a service whose router is ready, on a rate limiter that
\* has been in use for an hour and has its daily quota untouched or used up.
ServiceStart == DaySeconds + 3600

EarlierCalls == {0, CallsPerDay}

\* One status code of each class.
ServiceStatusCodes == {200, 429, 400}

\* The rate limiter an hour after its construction, with k calls admitted
\* at the start.
LimiterInUse(k) ==
    /\ call_times = [i \in 1..k |-> DaySeconds]
    /\ admissions = [i \in 1..k |-> DaySeconds]
    /\ daily_calls = k
    /\ last_reset = DaySeconds
    /\ lock = NoThread
    /\ pc = [t \in Threads |-> "idle"]
    /\ wake_at = [t \in Threads |-> 0]
    /\ ncalls = 0
    /\ entry = [t \in Threads |-> [day |-> 0, full |-> FALSE]]

InitService ==
    /\ now = ServiceStart
    /\ ticks = 0
    /\ \E k \in EarlierCalls : LimiterInUse(k)
    /\ \E l \in ServiceProviderLists :
          /\ providers_arg = [given |-> TRUE, list |-> l]
          /\ provider_list = l
          /\ providers = SortedByPriority(l)
    /\ groq_api_key = "gsk_key"
    /\ router = "ready"
    /\ router_init_error = None
    /\ request_error = None
    /\ CompleteIdle
    /\ CacheConstructed
    /\ NormalizerIdle
    /\ disable_cache \in DisableCacheValues
    /\ apc = [r \in Requests |-> "idle"]
    /\ req = [r \in Requests |-> NoLocals]
    /\ outcome = [r \in Requests |-> NoOutcome]
    /\ remote_calls = <<>>
    /\ cache_calls = <<>>

NextService ==
    \/ \E r \in Requests :
          \/ Analyze(r)
          \/ Lookup(r)
          \/ LoopNext(r)
          \/ apc[r] = "admission" /\ pc[r] = "idle" /\ Call(r)
          \/ CanAcquire(r)
          \/ CanMakeCall(r)
          \/ Wake(r)
          \/ RecAcquire(r)
          \/ RecordCall(r)
          \/ GroqPostOf(r, ServiceStatusCodes)
          \/ GroqTimesOut(r)
          \/ GroqNotAdmitted(r)
          \/ OtherProvider(r)
          \/ BackoffOver(r)
          \/ FormatAndStore(r)
    \/ TickService

SpecService == InitService /\ [][NextService]_vars

\* GroqProvider.complete alone: the router of each request has just called
\* it, and the behaviour ends where it returns or raises. The daily
\* quota is untouched, has one call left, or is used up.
InitProvider ==
    /\ now = ServiceStart
    /\ ticks = 0
    /\ \E k \in EarlierCalls \cup {CallsPerDay - 1} : LimiterInUse(k)
    /\ providers_arg = [given |-> FALSE, list |-> <<>>]
    /\ provider_list = DiscoverProviders("gsk_key")
    /\ providers = SortedByPriority(DiscoverProviders("gsk_key"))
    /\ groq_api_key = "gsk_key"
    /\ router = "ready"
    /\ router_init_error = None
    /\ request_error = None
    /\ CompleteIdle
    /\ CacheConstructed
    /\ NormalizerIdle
    /\ disable_cache = EnvUnset
    /\ apc = [r \in Requests |-> "admission"]
    /\ req = [r \in Requests |-> [NoLocals EXCEPT !.idx = 1, !.start = now]]
    /\ outcome = [r \in Requests |-> NoOutcome]
    /\ remote_calls = <<>>
    /\ cache_calls = <<>>

NextProviderCall ==
    \/ \E r \in Requests :
          \/ apc[r] = "admission" /\ pc[r] = "idle" /\ Call(r)
          \/ CanAcquire(r)
          \/ CanMakeCall(r)
          \/ Wake(r)
          \/ RecAcquire(r)
          \/ RecordCall(r)
          \/ GroqPost(r)
          \/ GroqTimesOut(r)
          \/ GroqNotAdmitted(r)
    \/ TickService

SpecProvider == InitProvider /\ [][NextProviderCall]_vars

SpecCacheSeq == InitCache /\ [][NextCacheSeq]_vars

\* Several callers use the cache at once, all on one entry, which may have
\* been left in the cache directory in any condition before the start.
\* What a file of the cache directory can hold at the start: nothing, text
\* that is not JSON, JSON that is not the written dict, a dict without its
\* fields or with a timestamp that is no date, and entries written by
\* cache_result a second or more than cache_duration ago.
LeftOverFiles(t) ==
    {Absent, Empty,
     Text(JsonDump(PyList(<<>>))),
     Text(JsonDump(PyDict([email_length |-> PyInt(7)]))),
     Text(JsonDump(PyDict([timestamp |-> PyInt(0), result |-> PyNone]))),
     Text(JsonDump(PyDict([timestamp |-> PyStr(<<"yesterday">>),
                           result |-> PyNone]))),
     Text(JsonDump(PyDict([timestamp |-> PyStr(IsoFormat(t - 1))]))),
     Text(JsonDump(PyDict([timestamp |->
                              PyStr(IsoFormat(t - CacheDuration - 1))])))}
    \cup {Text(JsonDump(Envelope(RacedContent, v, t - d))) :
             v \in Payloads, d \in {1, CacheDuration + 1}}

InitCacheRace ==
    /\ now = DaySeconds + 3600
    /\ ticks = 0
    /\ LimiterConstructed
    /\ providers_arg = [given |-> FALSE, list |-> <<>>]
    /\ groq_api_key = ""
    /\ RouterUnbuilt
    /\ CompleteIdle
    /\ \E f \in LeftOverFiles(now) :
          files = [p \in CachePaths |-> IF p = RacedPath THEN f ELSE Absent]
    /\ cpc = [c \in Callers |-> "idle"]
    /\ cop = [c \in Callers |-> NoOp]
    /\ cached_data = [c \in Callers |-> PyNone]
    /\ checked_at = [c \in Callers |-> 0]
    /\ nops = 0
    /\ prev_done = NoOp
    /\ last_done = NoOp
    /\ NormalizerIdle
    /\ ServiceIdle

NextCacheRace ==
    \/ \E c \in Callers :
          \/ GetCallFor(c, {RacedContent}, {RacedType})
          \/ GetExists(c)
          \/ GetRead(c)
          \/ GetCheck(c)
          \/ GetRemove(c)
          \/ StoreCallFor(c, {RacedContent}, {RacedType})
          \/ StoreOpen(c)
          \/ StoreWrite(c)

SpecCacheRace == InitCacheRace /\ [][NextCacheRace]_vars

(***************************************************************************)
(* Claims about the rate limiter, checked under SpecLimiter.               *)
(***************************************************************************)
\* The admissions recorded in the 60 seconds that end at time t.
AdmittedInWindow(t) ==
    Cardinality({j \in DOMAIN admissions :
                    admissions[j] > t - Minute /\ admissions[j] <= t})

\* C1: under any interleaving of concurrent wait_if_needed callers, the
\* admissions whose timestamps lie in any trailing 60-second window never
\* number more than calls_per_minute.
C1_WindowNeverExceeded ==
    \A i \in DOMAIN admissions : AdmittedInWindow(admissions[i]) <= CallsPerMinute

\* C2: the admission check and the recording of the slot are one critical
\* section: while a caller is between its successful can_make_call and its
\* record_call, no other caller is inside can_make_call or record_call.
C2_CheckThenRecordAtomic ==
    \A t \in Threads : \A u \in Threads \ {t} :
        pc[t] = "rec_lock" => pc[u] \notin {"can_body", "rec_body"}

\* C3: a wait_if_needed call that starts once calls_per_day admissions have
\* been recorded in the current day fails with the rate-limit error: while
\* the day lasts it neither sleeps nor records a slot.
C3_DailyQuotaFailsFast ==
    \A t \in Threads :
        (entry[t].full /\ Date(now) = entry[t].day)
            => pc[t] \in {"can_lock", "can_body", "raised"}

\* The same, for a call whose own check finds the counter at the quota:
\* the daily check comes first, so a full window does not make it sleep.
DailyCheckComesFirst ==
    [][\A t \in Threads :
          (pc[t] = "can_body" /\ pc'[t] # "can_body"
              /\ DailyAfterReset(now) >= CallsPerDay)
          => (pc'[t] = "raised" /\ call_times' = call_times)]_vars

(***************************************************************************)
(* Claims about the router, checked under SpecRouter.                      *)
(***************************************************************************)
LastAttempt == attempts[Len(attempts)]

\* The priority of the provider object with the given id.
PriorityOf(id) == provider_list[id].priority

\* C4: complete returns the result of the first provider, in ascending
\* priority order, that succeeds: the providers before it were each
\* dispatched once and failed, and none is dispatched after a success.
C4_FirstSuccessWins ==
    /\ \A j \in DOMAIN dispatched :
          /\ j <= Len(providers)
          /\ dispatched[j].provider = providers[j].id
          /\ \A k \in DOMAIN dispatched :
                j < k => /\ PriorityOf(dispatched[j].provider)
                              <= PriorityOf(dispatched[k].provider)
                         /\ dispatched[j].provider # dispatched[k].provider
    /\ \A j \in DOMAIN attempts :
          attempts[j].kind = "ok"
              => j = Len(attempts) /\ j = Len(dispatched) /\ rpc = "returned"
    /\ rpc = "returned"
          => /\ attempts # <<>>
             /\ LastAttempt.kind = "ok"
             /\ ret = LastAttempt.result

C4_Witness ==
    /\ rpc = "returned"
    /\ Len(attempts) = 2
    /\ Len(providers) = 3
    /\ providers # provider_list

\* C5: on ProviderRateLimitError the error is recorded, retry_delay is
\* slept, and then the next provider is dispatched; no provider is
\* dispatched twice in one call.
C5_RateLimitBacksOffThenMovesOn ==
    /\ rpc = "backoff"
          => /\ LastAttempt.kind = "rate_limit"
             /\ last_error = <<providers[idx].name, LastAttempt.text>>
    /\ \A j \in DOMAIN attempts :
          (attempts[j].kind = "rate_limit" /\ j < Len(dispatched))
              => /\ dispatched[j + 1].at >= attempts[j].end + RetryDelay
                 /\ j + 1 <= Len(providers)
                 /\ dispatched[j + 1].provider = providers[j + 1].id
    /\ \A j \in DOMAIN attempts :
          (attempts[j].kind = "rate_limit" /\ (j < Len(attempts) \/ rpc = "raised"))
              => \E b \in DOMAIN backoffs : backoffs[b].after = attempts[j].provider
    /\ \A j \in DOMAIN dispatched : \A k \in DOMAIN dispatched :
          j # k => dispatched[j].provider # dispatched[k].provider

C5_Witness ==
    /\ Len(dispatched) = 2
    /\ attempts[1].kind = "rate_limit"
    /\ dispatched[2].at = attempts[1].end + RetryDelay

\* C6: when every provider fails, complete raises one error whose message
\* is the error text of the last provider dispatched, and only after all
\* the providers have been dispatched.
C6_ExhaustionCarriesLastError ==
    rpc = "raised"
        => /\ Len(dispatched) = Len(providers)
           /\ Len(attempts) = Len(providers)
           /\ \A j \in DOMAIN attempts : attempts[j].kind # "ok"
           /\ LastAttempt.provider = providers[Len(providers)].id
           /\ raised_msg = <<providers[Len(providers)].name, LastAttempt.text>>

C6_Witness ==
    /\ rpc = "raised"
    /\ Len(providers) = 3
    /\ attempts[1].text # attempts[3].text
    /\ attempts[2].text # attempts[3].text

\* C7, as claimed: on success complete returns a record {data, provider,
\* latency} with the serving provider's name and the elapsed time of its call.
C7_ReturnsRecord ==
    rpc = "returned"
        => ret = [data |-> LastAttempt.result,
                  provider |-> providers[Len(attempts)].name,
                  latency |-> LastAttempt.end - LastAttempt.start]

\* C7, amended: on success complete returns the serving provider's result
\* itself; the serving provider's name and the elapsed time of its call are
\* printed, not returned.
C7_ReturnsProviderResult ==
    rpc = "returned"
        => /\ ret = LastAttempt.result
           /\ ret \in Results
           /\ served = [provider |-> providers[Len(attempts)].name,
                        latency |-> LastAttempt.end - LastAttempt.start]

C7_Witness ==
    /\ rpc = "returned"
    /\ Len(attempts) = 2
    /\ attempts[1].end > attempts[1].start
    /\ served.latency = 1
    /\ "error" \in DOMAIN ret

\* C8: after construction self.providers is a permutation of the providers
\* given, ascending by priority, and providers of equal priority keep the
\* order in which they were given.
C8_ProvidersStablySorted ==
    router = "ready"
        => /\ Len(providers) = Len(provider_list)
           /\ {providers[i] : i \in DOMAIN providers}
                 = {provider_list[i] : i \in DOMAIN provider_list}
           /\ \A i \in DOMAIN providers : \A j \in DOMAIN providers :
                 i < j => \/ providers[i].priority < providers[j].priority
                          \/ /\ providers[i].priority = providers[j].priority
                             /\ providers[i].id < providers[j].id

C8_Witness ==
    /\ router = "ready"
    /\ Len(providers) = 3
    /\ <<providers[1].id, providers[2].id, providers[3].id>> = <<2, 3, 1>>
    /\ providers[1].priority = providers[2].priority

\* C9: constructing a router with zero providers (an empty iterable, or
\* nothing discovered from the environment) fails at construction: no
\* router object exists, and complete is never called on one.
ZeroProviders ==
    \/ providers_arg.given /\ providers_arg.list = <<>>
    \/ ~providers_arg.given /\ groq_api_key = ""

C9_NoProvidersNoRouter ==
    /\ (router # "unbuilt" /\ ZeroProviders)
          => /\ router = "failed"
             /\ router_init_error = NoProviderMessage
             /\ providers = <<>>
    /\ router = "failed" => (ZeroProviders /\ rpc = "idle" /\ dispatched = <<>>)
    /\ router = "ready" => providers # <<>>
    /\ rpc # "idle" => router = "ready"

C9_Witness ==
    /\ router = "failed"
    /\ providers_arg.given
    /\ request_error = NoProviderMessage

(***************************************************************************)
(* Claims about the cache, checked under SpecCacheSeq.                     *)
(***************************************************************************)
\* The last operation is a lookup of the key the operation before it stored.
LookupRightAfterStore ==
    /\ last_done.op = "get"
    /\ prev_done.op = "store"
    /\ last_done.type = prev_done.type
    /\ last_done.content = prev_done.content

\* C10: cache_result(k, v, t) followed by get_cached_result(k, t), with no
\* operation in between, returns v unchanged while the entry's age is at
\* most cache_duration, and a miss (None) once the age exceeds it.
C10_RoundTrip ==
    LookupRightAfterStore
        => last_done.result =
              IF last_done.at - prev_done.at > CacheDuration
              THEN PyNone
              ELSE prev_done.payload

C10_Witness ==
    /\ LookupRightAfterStore
    /\ last_done.at - prev_done.at = CacheDuration
    /\ last_done.result = prev_done.payload
    /\ "raw_analysis" \in DOMAIN last_done.result.dict

C10_WitnessExpired ==
    /\ LookupRightAfterStore
    /\ last_done.at - prev_done.at = CacheDuration + 1
    /\ last_done.result = PyNone
    /\ files[CachePath(CacheKey(last_done.content, last_done.type))] = Absent

\* C11: get_cached_result never propagates an error to its caller: whatever
\* the file holds (nothing, corrupt text, a dict lacking fields) and whatever
\* other callers do to it between the existence check and the read or the
\* delete, the call ends by returning, a payload or a miss (None).
C11_LookupFailsOpen ==
    last_done.op = "get"
        => /\ last_done.raised = None
           /\ last_done.result \in Payloads \cup {PyNone}

\* A lookup found the file gone after its existence check, removed by
\* another caller's lookup of the expired entry, and returned a miss.
C11_Witness ==
    /\ last_done.op = "get"
    /\ last_done.caught = <<"FileNotFoundError">>
    /\ last_done.raised = None
    /\ last_done.result = PyNone
    /\ files[RacedPath] = Absent

\* Lookups of a truncated file, of JSON that is no dict, of a dict without
\* its fields and of a timestamp that is no date all returned a miss.
C11_WitnessCorrupt ==
    /\ last_done.op = "get"
    /\ last_done.caught \in {<<"JSONDecodeError">>, <<"KeyError">>,
                              <<"TypeError">>, <<"ValueError">>}
    /\ last_done.result = PyNone

LookupAfterStoreOfOtherType ==
    /\ last_done.op = "get"
    /\ prev_done.op = "store"
    /\ last_done.content = prev_done.content
    /\ last_done.type # prev_done.type

\* C13: the entries of one content under two analysis types are independent:
\* a lookup under one type that follows a store under the other returns
\* what the entry of its own type, as it was before that store, gives at the
\* time of the lookup - never a hit the store made, nor the store's payload.
C13_TypesDoNotCollide ==
    LookupAfterStoreOfOtherType
        => last_done.result =
              LookupOn(prev_done.found[last_done.type], last_done.at).result

\* A store under each type with different payloads, then a lookup under the
\* type stored first, which returned the first payload.
C13_Witness ==
    /\ LookupAfterStoreOfOtherType
    /\ last_done.result \in Payloads
    /\ last_done.result # prev_done.payload
    /\ nops = 3

\* A lookup under a type never stored, right after a store under the other.
C13_WitnessMiss ==
    /\ LookupAfterStoreOfOtherType
    /\ last_done.result = PyNone
    /\ last_done.found[last_done.type] = Absent
    /\ nops = 2

IsMapping(v) == "dict" \in DOMAIN v

\* C14: for every input text - empty, valid JSON of any kind, unparseable -
\* _extract_json returns a mapping from string keys to values.
C14_AlwaysMapping ==
    extracted.called => IsMapping(extracted.value)

\* The texts that wrap a JSON object in a block fenced and labelled json,
\* with anything around the block, and are not JSON themselves.
JsonObjects == {b \in JsonTexts : IsMapping(JsonLoads(b).val)}

FencedJson(b) == <<Fence, "json", Blank>> \o b \o <<Blank, Fence>>

WrapsObject(text, b) ==
    /\ ~JsonLoads(Strip(text)).ok
    /\ \E before \in Surroundings, after \in Surroundings :
          text = before \o FencedJson(b) \o Reverse(after)

\* C15: from a text that is not JSON itself and wraps a JSON object in a
\* fenced block labelled json, _extract_json returns that object, whatever
\* surrounds the block.
C15_FencedObjectRecovered ==
    \A b \in JsonObjects :
        (extracted.called /\ WrapsObject(message, b))
            => extracted.value = JsonLoads(b).val

\* The texts with no JSON in them: text that is no JSON, bare or fenced,
\* with or without prose around it.
HoldsNoJson(text) ==
    \E b \in NonJsonTexts : \E w \in Wrapped(b) :
        \E before \in Surroundings, after \in Surroundings :
            text = before \o w \o Reverse(after)

\* C16 as stated, with the raw text under response.
C16_FallbackCarriesRawText ==
    (extracted.called /\ (message = <<>> \/ HoldsNoJson(message)))
        => /\ IsMapping(extracted.value)
           /\ ErrorKey \in DOMAIN extracted.value.dict
           /\ IF message = <<>>
              THEN extracted.value.dict[ErrorKey]
                      = PyStr(<<"Empty response from model">>)
              ELSE /\ extracted.value.dict[ErrorKey]
                         = PyStr(<<"Could not parse as JSON">>)
                   /\ ResponseKey \in DOMAIN extracted.value.dict
                   /\ extracted.value.dict[ResponseKey] = PyStr(message)

\* C16: for every text from which no strategy recovers JSON, _extract_json
\* returns a mapping with an error key: "Empty response from model" for the
\* empty text, otherwise "Could not parse as JSON" with, under response, the
\* text stripped of the whitespace at its ends.
C16_FallbackCarriesStrippedText ==
    (extracted.called /\ (message = <<>> \/ HoldsNoJson(message)))
        => /\ IsMapping(extracted.value)
           /\ ErrorKey \in DOMAIN extracted.value.dict
           /\ IF message = <<>>
              THEN extracted.value.dict[ErrorKey]
                      = PyStr(<<"Empty response from model">>)
              ELSE /\ extracted.value.dict[ErrorKey]
                         = PyStr(<<"Could not parse as JSON">>)
                   /\ ResponseKey \in DOMAIN extracted.value.dict
                   /\ extracted.value.dict[ResponseKey]
                         = PyStr(Strip(message))

\* The fallback for a text with whitespace at an end: the response is not
\* the text as it was given.
C16_Witness ==
    /\ extracted.called
    /\ HoldsNoJson(message)
    /\ Strip(message) # message
    /\ extracted.value.dict[ErrorKey] = PyStr(<<"Could not parse as JSON">>)
    /\ extracted.value.dict[ResponseKey] = PyStr(Strip(message))

\* The empty text.
C16_WitnessEmpty ==
    /\ extracted.called
    /\ message = <<>>
    /\ extracted.value = EmptyResponse

\* C12: with DISABLE_CACHE set, a request attempts neither a lookup nor a
\* store, and the cache's files are after the request as they were before.
C12_DisabledCacheUntouched ==
    ~CacheInUse(disable_cache)
        => /\ cache_calls = <<>>
           /\ files = [p \in CachePaths |-> Absent]

\* C17: GroqProvider.complete puts every response into one class by its
\* status code - 429 and 500 or more raise ProviderRateLimitError, any
\* other code of 400 or more raises ProviderError, anything below 400 is a
\* success - and the router's loop goes on accordingly.
C17_StatusClassification ==
    \A i \in DOMAIN remote_calls :
        LET e == remote_calls[i] IN
        e.kind # "exception"
            => IF e.status = 429 \/ e.status >= 500
               THEN e.kind = "rate_limit" /\ apc[e.by] = "backoff"
               ELSE IF e.status >= 400
               THEN e.kind = "provider_error" /\ apc[e.by] = "loop"
               ELSE e.kind = "ok" /\ apc[e.by] = "format"

C17_Witness ==
    /\ \E i \in DOMAIN remote_calls :
          remote_calls[i].status = 429 /\ remote_calls[i].kind = "rate_limit"
    /\ \E i \in DOMAIN remote_calls :
          remote_calls[i].status = 399 /\ remote_calls[i].kind = "ok"

C17_WitnessBoundaries ==
    /\ \E i \in DOMAIN remote_calls :
          remote_calls[i].status = 499 /\ remote_calls[i].kind = "provider_error"
    /\ \E i \in DOMAIN remote_calls :
          remote_calls[i].status = 500 /\ remote_calls[i].kind = "rate_limit"

\* The admissions recorded since the requests began.
NewAdmissions ==
    Cardinality({i \in DOMAIN admissions : admissions[i] >= ServiceStart})

RemoteCallsBy(r) == {i \in DOMAIN remote_calls : remote_calls[i].by = r}

\* C18: every remote request of GroqProvider.complete comes after a
\* successful admission of the same call whose slot is already recorded;
\* a call whose admission failed issues no remote request; and a recorded
\* slot stays recorded whatever the remote call came to.
C18_AdmissionBeforeRemote ==
    /\ \A r \in Requests :
          /\ RemoteCallsBy(r) # {} => pc[r] = "done"
          /\ pc[r] = "raised" => RemoteCallsBy(r) = {}
          /\ Cardinality(RemoteCallsBy(r)) <= 1
    /\ Len(remote_calls) <= NewAdmissions
    /\ NewAdmissions = Cardinality({r \in Requests : pc[r] = "done"})

\* One call was admitted, posted and was turned down by the remote side;
\* the other was refused by the daily limit and posted nothing; the slot
\* of the first is still recorded.
C18_Witness ==
    \E r1 \in Requests, r2 \in Requests :
        /\ RemoteCallsBy(r1) # {}
        /\ \A i \in RemoteCallsBy(r1) : remote_calls[i].kind # "ok"
        /\ pc[r2] = "raised"
        /\ apc[r2] = "loop"
        /\ NewAdmissions = 1
        /\ daily_calls = CallsPerDay

\* C19 as stated: a returned result says which source served it - provider
\* is "cache" with latency 0 on a cache hit, and otherwise the name of the
\* provider that answered, with the measured latency.
C19_ProviderNamesSource ==
    \A r \in Requests :
        outcome[r].kind = "returned"
            => IF outcome[r].source = "cache"
               THEN outcome[r].provider = "cache"
                    /\ outcome[r].latency_seconds = 0
               ELSE outcome[r].provider = outcome[r].source
                    /\ outcome[r].latency_seconds >= 0

\* C19: a returned result has provider "cache" and latency 0 on a cache
\* hit, and otherwise the fixed label "ai", whichever provider answered,
\* with the time the router's call took.
C19_ProviderIsCacheOrAi ==
    \A r \in Requests :
        outcome[r].kind = "returned"
            => IF outcome[r].source = "cache"
               THEN outcome[r].provider = "cache"
                    /\ outcome[r].latency_seconds = 0
               ELSE outcome[r].provider = "ai"
                    /\ outcome[r].source \in
                           {providers[i].name : i \in DOMAIN providers}
                    /\ outcome[r].latency_seconds >= 0
                    /\ outcome[r].latency_seconds <= now - ServiceStart

\* One request was answered by the second provider after a wait, the other
\* one from the cache.
C19_Witness ==
    \E r1 \in Requests, r2 \in Requests :
        /\ outcome[r1].kind = "returned"
        /\ outcome[r1].provider = "ai"
        /\ outcome[r1].source # "groq"
        /\ outcome[r1].latency_seconds > 0
        /\ outcome[r2].kind = "returned"
        /\ outcome[r2].provider = "cache"
        /\ outcome[r2].latency_seconds = 0

\* The cache is off, Groq is the only provider, no call was made before,
\* and every remote call so far was answered with success.
AlwaysSucceeds ==
    /\ ~CacheInUse(disable_cache)
    /\ providers = <<GroqProvider>>
    /\ Len(admissions) = NewAdmissions
    /\ \A i \in DOMAIN remote_calls : remote_calls[i].kind = "ok"

\* C20: with the cache disabled and a provider that always succeeds, no
\* concurrent request fails, and when all of them are back each one made
\* its own remote call and consumed its own slot.
C20_ConcurrentRequestsSucceed ==
    AlwaysSucceeds
        => /\ \A r \in Requests : outcome[r].kind # "raised"
           /\ (\A r \in Requests : outcome[r].kind = "returned")
                  => /\ \A r \in Requests : Cardinality(RemoteCallsBy(r)) = 1
                     /\ NewAdmissions = Cardinality(Requests)

\* The same, for answers that _extract_json turns into a mapping.
C20_MappingAnswersSucceed ==
    (AlwaysSucceeds
        /\ \A r \in Requests :
              outcome[r].kind = "raised"
                  => outcome[r].error # <<"AttributeError">>)
        => /\ \A r \in Requests : outcome[r].kind # "raised"
           /\ (\A r \in Requests : outcome[r].kind = "returned")
                  => /\ \A r \in Requests : Cardinality(RemoteCallsBy(r)) = 1
                     /\ NewAdmissions = Cardinality(Requests)

C20_WitnessBothServed ==
    /\ AlwaysSucceeds
    /\ \A r \in Requests : outcome[r].kind = "returned"
    /\ NewAdmissions = Cardinality(Requests)

(***************************************************************************)
(* Further claims about the router, checked under SpecRouter.              *)
(***************************************************************************)
\* The attempt j has been handled: the loop is past its handler.
Handled(j) == j < Len(attempts) \/ rpc \notin {"in_provider", "backoff"}

BackoffsAfter(j) ==
    {b \in DOMAIN backoffs : backoffs[b].after = attempts[j].provider}

\* C21: a provider call that times out is handled as a rate-limited one:
\* the error is recorded, retry_delay is slept, then the next provider is
\* dispatched, and complete does not raise the timeout itself.
C21_TimeoutBacksOff ==
    \A j \in DOMAIN attempts :
        (attempts[j].text = TimeoutText /\ Handled(j))
            => /\ BackoffsAfter(j) # {}
               /\ j < Len(dispatched)
                     => dispatched[j + 1].at >= attempts[j].end + RetryDelay

\* What does hold of a timeout: it is recorded as the last error and the
\* next provider is dispatched, at once.
TimeoutFailsOver ==
    \A j \in DOMAIN attempts :
        attempts[j].text = TimeoutText
            => /\ attempts[j].kind = "exception"
               /\ j = Len(attempts) /\ rpc = "loop"
                     => last_error = <<providers[j].name, TimeoutText>>
               /\ BackoffsAfter(j) = {}
               /\ j < Len(dispatched)
                     => dispatched[j + 1].at = attempts[j].end

RateLimitedAttempts == {j \in DOMAIN attempts : attempts[j].kind = "rate_limit"}

\* C24: after a ProviderError or any exception other than
\* ProviderRateLimitError, complete records the error and dispatches the
\* next provider with no sleep in between; the sleeps of one call are as
\* many as the providers that raised ProviderRateLimitError.
C24_OnlyRateLimitSleeps ==
    /\ \A j \in DOMAIN attempts :
          attempts[j].kind \in {"provider_error", "exception"}
              => /\ BackoffsAfter(j) = {}
                 /\ (j = Len(attempts) /\ j = Len(dispatched))
                       => /\ rpc \in {"loop", "raised"}
                          /\ last_error = <<providers[j].name, attempts[j].text>>
                 /\ j < Len(dispatched)
                       => /\ dispatched[j + 1].at = attempts[j].end
                          /\ dispatched[j + 1].provider = providers[j + 1].id
    /\ Len(backoffs) = Cardinality(RateLimitedAttempts)
                          - (IF rpc = "backoff" THEN 1 ELSE 0)

\* A provider error, then a rate limit and its sleep, then an exception,
\* and the call is over with one sleep.
C24_Witness ==
    /\ rpc = "raised"
    /\ Len(attempts) = 3
    /\ attempts[1].kind = "provider_error"
    /\ attempts[2].kind = "rate_limit"
    /\ attempts[3].kind = "exception"
    /\ Len(backoffs) = 1
    /\ dispatched[2].at = attempts[1].end

(***************************************************************************)
(* Further claims about the rate limiter, checked under SpecLimiter.       *)
(***************************************************************************)
\* The step in which thread t's can_make_call returns.
CheckReturns(t) == pc[t] = "can_body" /\ pc'[t] # "can_body"

\* C22: when an admission check returns, whatever its outcome, call_times
\* holds no timestamp older than 60 seconds before the time of the check.
C22_CheckLeavesNoOldTimes ==
    [][\A t \in Threads :
          CheckReturns(t)
              => \A i \in DOMAIN call_times' : call_times'[i] >= now - Minute]_vars

\* What does hold: a check that gets past the daily limit leaves only
\* timestamps of the last 60 seconds.
PrunedUnlessDailyLimit ==
    [][\A t \in Threads :
          (CheckReturns(t) /\ pc'[t] # "raised")
              => \A i \in DOMAIN call_times' : call_times'[i] > now - Minute]_vars

\* C23: daily_calls is reset once per change of day, by the first check
\* that sees the new date, and the reset loses no admission recorded on the
\* new date: once last_reset is of today, daily_calls counts the admissions
\* of today.
C23_ResetLosesNoAdmission ==
    Date(last_reset) = Date(now) => daily_calls = AdmittedOn(Date(now))

\* What does hold: the counter is reset only by a check that sees a date
\* later than that of last_reset, which it moves to its own time.
ResetOnlyOnNewDate ==
    [][last_reset' # last_reset
          => /\ Date(now) > Date(last_reset)
             /\ last_reset' = now
             /\ daily_calls' = 0]_vars

\* C25: a caller that found the window full sleeps the computed wait and
\* one second more without holding the lock, then runs the whole admission
\* check again; it records a slot only after a check of its own that
\* passed, and a check that finds the daily quota used up makes it fail.
C25_WaiterChecksAgain ==
    /\ [](\A t \in Threads : pc[t] = "sleep" => lock # t)
    /\ [][\A t \in Threads :
             /\ pc[t] = "sleep" => pc'[t] \in {"sleep", "can_lock"}
             /\ (pc[t] = "sleep" /\ pc'[t] = "can_lock") => now >= wake_at[t]
             /\ (pc[t] # "sleep" /\ pc'[t] = "sleep")
                   => /\ pc[t] = "can_body"
                      /\ Len(PrunedCallTimes(now)) >= CallsPerMinute
                      /\ wake_at'[t] = MinOf(PrunedCallTimes(now)) + Minute
                                          + SleepBuffer
             /\ (pc[t] # "rec_lock" /\ pc'[t] = "rec_lock")
                   => /\ pc[t] = "can_body"
                      /\ DailyAfterReset(now) < CallsPerDay
                      /\ Len(PrunedCallTimes(now)) < CallsPerMinute
             /\ (CheckReturns(t) /\ DailyAfterReset(now) >= CallsPerDay)
                   => pc'[t] = "raised"]_vars

\* A call that began with the quota open slept, and after its sleep found
\* the quota used up by the other thread and failed.
C25_Witness ==
    \E t \in Threads :
        /\ pc[t] = "raised"
        /\ ~entry[t].full
        /\ Date(now) = entry[t].day
        /\ wake_at[t] > 0
        /\ now >= wake_at[t]
        /\ \A u \in Threads \ {t} : wake_at[u] = 0

\* A waiter that was admitted by its second check.
C25_WitnessAdmitted ==
    \E t \in Threads :
        /\ pc[t] = "done"
        /\ wake_at[t] > 0
        /\ ncalls = 2
        /\ Len(admissions) = 2

\* C28: with any number of concurrent callers of wait_if_needed,
\* daily_calls never exceeds calls_per_day.
C28_DailyCallsWithinQuota == daily_calls <= CallsPerDay

(***************************************************************************)
(* Further claims about the cache, checked under SpecCacheRace.            *)
(***************************************************************************)
\* The file holds an entry that has not expired at time t.
FreshEntry(file, t) ==
    /\ file.kind = "text"
    /\ TimestampError(JsonLoad(file.json)) = None
    /\ ~Expired(t - FromIsoFormat(JsonLoad(file.json).dict["timestamp"].str))

\* C26: a lookup never deletes an entry that has not expired, however it
\* is interleaved with another caller's store to the same key.
C26_LookupKeepsFreshEntries ==
    [][\A p \in CachePaths :
          FreshEntry(files[p], now) => files'[p] # Absent]_vars

NoWriterInside == \A c \in Callers : cpc[c] \notin {"w_open", "w_write", "w_orphan"}

StoreCompleted == last_done.op = "store" \/ prev_done.op = "store"

\* The file holds the dict of cache_result around one of the payloads.
WholeEntry(file) ==
    /\ file.kind = "text"
    /\ TimestampError(JsonLoad(file.json)) = None
    /\ "result" \in DOMAIN JsonLoad(file.json).dict
    /\ JsonLoad(file.json).dict["result"] \in Payloads

\* C27: a lookup that runs while others store to the same key returns a
\* miss or a payload that was given to a store, never a mix, and when all
\* writers are through the entry that is there holds the payload of one.
C27_ReadsAndFinalEntryWhole ==
    /\ last_done.op = "get"
          => last_done.result = PyNone \/ last_done.result \in Payloads
    /\ (NoWriterInside /\ StoreCompleted /\ files[RacedPath] # Absent)
          => WholeEntry(files[RacedPath])

\* What does hold: no lookup returns anything but a miss or a payload.
ReadsAreWhole ==
    last_done.op = "get"
        => last_done.result = PyNone \/ last_done.result \in Payloads

(***************************************************************************)
(* Further claims about a service's requests, checked under SpecService.   *)
(***************************************************************************)
StoresBy(r) == {i \in DOMAIN cache_calls : cache_calls[i] = [by |-> r, op |-> "store"]}

\* router.complete returned to the request: the request returned what a
\* provider gave, or failed on what complete had returned.
CompleteReturned(r) ==
    \/ outcome[r].kind = "returned" /\ outcome[r].source # "cache"
    \/ outcome[r] = Raised(<<"AttributeError">>)

CompleteRaised(r) ==
    outcome[r].kind = "raised" /\ outcome[r].error # <<"AttributeError">>

\* A lookup made after a store, and a request served from the cache.
LooksUpAfterStore(j) ==
    /\ cache_calls[j].op = "get"
    /\ \E i \in 1..(j - 1) : cache_calls[i].op = "store"

ServedFromCache(r) ==
    /\ outcome[r].kind = "returned"
    /\ outcome[r].source = "cache"
    /\ RemoteCallsBy(r) = {}
    /\ pc[r] = "idle"
    /\ outcome[r].latency_seconds = 0
    /\ files[RacedPath].kind = "text"
    /\ outcome[r].data = JsonLoad(files[RacedPath].json).dict["result"]

\* C29: a request writes the cache entry exactly when its call of
\* router.complete returned, the fallback mapping included; an identical
\* request that looks up afterwards is served the stored result with no
\* admission and no remote call; a complete that raised leaves the cache
\* as it was.
C29_StoredExactlyOnReturn ==
    /\ \A r \in Requests :
          /\ CompleteReturned(r) => StoresBy(r) # {}
          /\ CompleteRaised(r) => StoresBy(r) = {}
          /\ (outcome[r].kind = "returned" /\ outcome[r].source = "cache")
                => ServedFromCache(r)
    /\ \A j \in DOMAIN cache_calls :
          LooksUpAfterStore(j) => ServedFromCache(cache_calls[j].by)
    /\ cache_calls = <<>> => files = [p \in CachePaths |-> Absent]

\* The same, for requests whose complete returned a mapping.
C29_MappingAnswersStored ==
    /\ \A r \in Requests :
          /\ (outcome[r].kind = "returned" /\ outcome[r].source # "cache")
                => StoresBy(r) # {}
          /\ outcome[r].kind = "raised" => StoresBy(r) = {}
          /\ (outcome[r].kind = "returned" /\ outcome[r].source = "cache")
                => ServedFromCache(r)
    /\ \A j \in DOMAIN cache_calls :
          LooksUpAfterStore(j) => ServedFromCache(cache_calls[j].by)
    /\ (\A i \in DOMAIN cache_calls : cache_calls[i].op = "get")
          => files = [p \in CachePaths |-> Absent]

\* The fallback mapping was stored by one request and served to the other.
C29_WitnessFallbackServed ==
    \E r1 \in Requests, r2 \in Requests :
        /\ StoresBy(r1) # {}
        /\ outcome[r1].kind = "returned"
        /\ ErrorKey \in DOMAIN outcome[r1].data.dict[<<"raw_analysis">>].dict
        /\ ServedFromCache(r2)
        /\ outcome[r2].data = outcome[r1].data

\* The request's admission was refused by the daily limit.
Refused(r) == pc[r] = "raised"

RefusalMovesOn(r) ==
    /\ RemoteCallsBy(r) = {}
    /\ apc[r] = "backoff" => req[r].idx > 1
    /\ (apc[r] = "loop" /\ req[r].idx = 2)
          => /\ req[r].wake = 0
             /\ req[r].last_error = <<"groq", QuotaText>>

\* C30 as stated: whenever no provider succeeds after the refusal, the
\* error raised carries the quota message.
C30_RaisesQuotaMessage ==
    \A r \in Requests :
        Refused(r)
            => /\ RefusalMovesOn(r)
               /\ outcome[r].kind = "raised"
                     => outcome[r].error = <<"groq", QuotaText>>

\* C30: an admission refused by the daily limit reaches the router as a
\* plain exception: no remote request is made for Groq, no backoff is slept
\* for it, the next provider is taken, and if none succeeds the error
\* raised is that of the last provider taken - the quota message when that
\* is Groq; the refused check leaves the rate limiter as it was.
C30_RefusalIsNoRateLimit ==
    /\ [](\A r \in Requests :
             Refused(r)
                 => /\ RefusalMovesOn(r)
                    /\ outcome[r].kind = "raised"
                          => /\ outcome[r].error[1] = providers[Len(providers)].name
                             /\ Len(providers) = 1
                                   => outcome[r].error = <<"groq", QuotaText>>)
    /\ [][\A r \in Requests :
             (CheckReturns(r) /\ pc'[r] = "raised")
                 => UNCHANGED <<call_times, daily_calls, last_reset, admissions>>]_vars

\* Groq alone, refused: the request failed with the quota message and made
\* no remote call.
C30_Witness ==
    \E r \in Requests :
        /\ Refused(r)
        /\ Len(providers) = 1
        /\ outcome[r] = Raised(<<"groq", QuotaText>>)
        /\ remote_calls = <<>>

\* Refused by Groq and served by the second provider.
C30_WitnessServed ==
    \E r \in Requests :
        /\ Refused(r)
        /\ outcome[r].kind = "returned"
        /\ outcome[r].source # "groq"
        /\ outcome[r].latency_seconds = 0

====
